---- MODULE Spec2Model ----
(***************************************************************************)
(* Session manager, session actors, pool broker and sandbox pool of the    *)
(* RLM server (crates/app), as state machines.                             *)
(*                                                                         *)
(*   Spec      the actor-based session manager of session.rs: clients      *)
(*             calling try_dispatch, the manager thread, one actor thread  *)
(*             per admitted session, the pool broker thread and the        *)
(*             workers behind the sandbox handles.                         *)
(*   SpecLru   the same machine without failures or resets, with more      *)
(*             requests and session ids, for the idle LRU.                 *)
(***************************************************************************)
EXTENDS Integers, Sequences, FiniteSets, TLC

(* ------------------------------ bounds --------------------------------- *)

\* Number of requests the clients issue in one run of Spec.
MaxRequests == 3

\* Number of distinct session ids the clients use in Spec.
NumSessions == 2

\* Number of requests and of session ids in SpecLru.
LruRequests == 4

LruSessions == 3

\* Largest configured max_sessions in SpecLru (from 1).
LruMaxSessions == 2

\* Number of handles the launcher can launch before every launch fails.
MaxHandles == 3

\* Largest configured SessionConfig.max_sessions explored (from 0).
MaxSessionsCfg == 1

\* Largest configured SessionConfig.ingress_capacity explored (from 0).
MaxIngressCfg == 1

\* Largest configured sandbox_pool_size explored (from 0).
MaxPoolCfg == 1

\* Largest target_idle of the pool of SpecPool.
MaxPoolTarget == 2

\* Number of launches with a failed handshake followed in SpecPool.
MaxFailedClients == 2

\* Lines the worker reads from its stdin.
MaxLines == 3

\* Tokens in a response of the model that is searched for a final answer.
MaxTextLen == 6

\* The largest max_iterations of an RlmRepl, the turns it serves, and the
\* repl code blocks in one response.
MaxIterations == 2

MaxTurns == 2

MaxBlocks == 2

(* ------------------------- program constants --------------------------- *)

\* drain_finished_events batch before a request is handled.
DrainBatchBefore == 4096

\* drain_finished_events batch after a dispatch.
DrainBatchAfter == 512

(* ------------------------------ helpers -------------------------------- *)

Max(a, b) == IF a >= b THEN a ELSE b

Min(a, b) == IF a <= b THEN a ELSE b

Range(f) == {f[i] : i \in DOMAIN f}

Sessions == 1..Max(NumSessions, LruSessions)

ReqIds == 1..Max(MaxRequests, LruRequests)

Handles == 1..MaxHandles

\* "No handle" (Option::None) and "no actor".
None == 0

VARIABLES
    config,        \* SessionConfig / AppConfig: max_sessions, ingress_capacity, sandbox_pool_size
    reqs,          \* the requests issued so far, in order of their try_dispatch call
    ingress,       \* the manager's bounded request channel (request ids)
    managerAlive,  \* the manager thread holds request_receiver
    mgrPc,         \* manager position: "recv" (blocked in recv) or "drain" (before the trailing drain)
    actors,        \* manager: HashMap<String, ActorEntry>
    idle_lru,      \* manager: VecDeque<String>
    idle_index,    \* manager: HashSet<String>
    finished,      \* the ActorFinished channel (session ids)
    threads,       \* the session actor threads, by actor id
    poolQueue,     \* the pool broker's command channel
    pool,          \* SandboxPool: idle queue and target_idle, and the launcher's launch count
    terminated,    \* handles on which terminate has run
    interp,        \* per handle: the worker's interpreter
    phase,         \* SpecPool: where the SandboxPool value is in its life
    clients,       \* SpecPool: per handle, the SandboxClient and its child process
    failedClients, \* SpecPool: the SandboxClients whose launch handshake failed
    held,          \* SpecPool: the handles acquire returned that its caller still has
    lastOp,        \* SpecPool: the last call on the pool, its inputs and its result
    wPc,           \* SpecWorker: the sandbox_worker process ("serving", "exited")
    wRead,         \* SpecWorker: the lines the worker has taken from stdin
    wOut,          \* SpecWorker: the responses the worker has emitted
    stdoutOpen,    \* SpecWorker: whether a write to the worker's stdout succeeds
    repl,          \* SpecWorker: the worker's RlmRepl and its interpreter
    fText,         \* SpecFinal: a response of the model, as a sequence of tokens
    fLocals,       \* SpecFinal: the names bound in the interpreter's __rlm_locals
    fPc,           \* SpecFinal: "input", then "return" or "next_iteration"
    fAnswer,       \* SpecFinal: what check_for_final_answer returned
    max_iterations, \* SpecLoop: RlmRepl.max_iterations
    messages,      \* SpecLoop: RlmRepl.messages
    lPc,           \* SpecLoop: "idle" between turns, "call" / "final_call" while the model is asked
    lTurn,         \* SpecLoop: the number of the current turn
    lIter,         \* SpecLoop: the iteration of run_completion_loop
    lLocals,       \* SpecLoop: the names bound in the interpreter's __rlm_locals
    lCalls,        \* SpecLoop: what was passed to each model call of the current turn
    lResps,        \* SpecLoop: the responses of the iterations of the current turn
    lExec,         \* SpecLoop: the code blocks executed in the current turn, in order
    lResult,       \* SpecLoop: what the last turn returned
    repl_env,      \* SpecLoop: RlmRepl.repl_env is Some
    headers,       \* SpecHttp: the request's X-RLM-Reset and X-RLM-Session-Id headers
    payload,       \* SpecHttp: the request's body, an OpenAiChatCompletionsRequest
    hPc,           \* SpecHttp: "request", then "await" (sent to the manager) or "done"
    hSent,         \* SpecHttp: the SessionRequests sent to the session manager
    hResponse,     \* SpecHttp: the handler's result, a status and a body
    subcall,       \* SpecSubcall: a call of __rlm_llm_query, its messages and what it did
    pyGlobals,     \* SpecRepl: scope.globals of the ReplEnv, by name
    pyLocals,      \* SpecRepl: the dict __rlm_locals, by name
    pySys,         \* SpecRepl: sys.stdout, sys.stderr and the trace function of the interpreter
    pyBound,       \* SpecRepl: per name, the value the last completed execution assigning it gave it
    lastExec       \* SpecRepl: the last call of ReplEnv::execute, its code and what ran

vars == <<config, reqs, ingress, managerAlive, mgrPc, actors, idle_lru, idle_index,
          finished, threads, poolQueue, pool, terminated, interp,
          phase, clients, failedClients, held, lastOp,
          wPc, wRead, wOut, stdoutOpen, repl,
          fText, fLocals, fPc, fAnswer,
          max_iterations, messages, lPc, lTurn, lIter, lLocals, lCalls, lResps, lExec, lResult, repl_env,
          headers, payload, hPc, hSent, hResponse,
          subcall, pyGlobals, pyLocals, pySys, pyBound, lastExec>>

mgrVars == <<managerAlive, mgrPc, actors, idle_lru, idle_index>>

poolVars == <<pool, terminated>>

clientVars == <<phase, clients, failedClients, held, lastOp>>

workerVars == <<wPc, wRead, wOut, stdoutOpen, repl>>

finalVars == <<fText, fLocals, fPc, fAnswer>>

loopVars == <<max_iterations, messages, lPc, lTurn, lIter, lLocals, lCalls, lResps, lExec, lResult, repl_env>>

httpVars == <<headers, payload, hPc, hSent, hResponse>>

replVars == <<subcall, pyGlobals, pyLocals, pySys, pyBound, lastExec>>

agentVars == <<finalVars, loopVars, httpVars, replVars>>

sessionVars == <<config, reqs, ingress, managerAlive, mgrPc, actors, idle_lru, idle_index,
                 finished, threads, poolQueue, interp>>

(* ------------------------------- pool ---------------------------------- *)

\* SandboxLauncher::launch, when it succeeds: the next handle.
Launch(p) == [p EXCEPT !.launched = @ + 1]

\* Whether a launch can succeed: k is the number of launches the launcher
\* still grants during this pool call.
CanLaunch(p, k) == k > 0 /\ p.launched < MaxHandles

\* Mutant of refill_best_effort: one launch, made at target_idle too (<= for <).
RefillPastTarget(p, k) ==
    IF Len(p.idle) <= p.target_idle /\ CanLaunch(p, k)
    THEN [Launch(p) EXCEPT !.idle = Append(@, p.launched + 1)]
    ELSE p

RECURSIVE refill_best_effort(_, _)
refill_best_effort(p, k) ==
    IF Len(p.idle) < p.target_idle /\ CanLaunch(p, k)
    THEN refill_best_effort(
             [Launch(p) EXCEPT !.idle = Append(@, p.launched + 1)], k - 1)
    ELSE p

\* Mutant of PoolAcquire: a refill that falls short is reported as Err.
PoolAcquireStrictRefill(p, k) ==
    LET q == IF p.idle # <<>>
             THEN [p EXCEPT !.idle = Tail(@)]
             ELSE IF CanLaunch(p, k) THEN Launch(p) ELSE p
        got == IF p.idle # <<>> THEN Head(p.idle)
               ELSE IF CanLaunch(p, k) THEN p.launched + 1 ELSE None
        r == IF got = None THEN p
             ELSE refill_best_effort(q, IF p.idle # <<>> THEN k ELSE k - 1)
    IN  [pool |-> r, handle |-> IF Len(r.idle) < r.target_idle THEN None ELSE got]

\* Mutant of PoolAcquire: the front handle is handed out and stays in idle.
PoolAcquirePeek(p, k) ==
    IF p.idle # <<>>
    THEN [pool |-> p, handle |-> Head(p.idle)]
    ELSE IF CanLaunch(p, k)
    THEN [pool |-> Launch(p), handle |-> p.launched + 1]
    ELSE [pool |-> p, handle |-> None]

\* Mutant of PoolAcquire: with idle empty, the handle launched last is handed
\* out again.
PoolAcquireReused(p, k) ==
    IF p.idle # <<>>
    THEN [pool |-> [p EXCEPT !.idle = Tail(@)], handle |-> Head(p.idle)]
    ELSE IF p.launched > 0
    THEN [pool |-> p, handle |-> p.launched]
    ELSE IF CanLaunch(p, k)
    THEN [pool |-> Launch(p), handle |-> p.launched + 1]
    ELSE [pool |-> p, handle |-> None]

\* SandboxPool::acquire: [pool, handle]; handle = None is Err.
PoolAcquire(p, k) ==
    IF p.idle # <<>>
    THEN [pool |-> refill_best_effort([p EXCEPT !.idle = Tail(@)], k),
          handle |-> Head(p.idle)]
    ELSE IF CanLaunch(p, k)
    THEN [pool |-> refill_best_effort(Launch(p), k - 1),
          handle |-> p.launched + 1]
    ELSE [pool |-> p, handle |-> None]

\* SandboxPool::retire: the handle is terminated by the caller of this
\* operator (see Terminate); the pool refills.
PoolRetire(p, k) == refill_best_effort(p, k)

\* SandboxPool::new: strict refill; Err when a launch fails.
PoolNew(target_idle) ==
    [idle |-> [i \in 1..target_idle |-> i],
     target_idle |-> target_idle,
     launched |-> target_idle]

\* The launches the launcher grants to one pool call before it fails: an
\* acquire uses at most one for the handle and target_idle for the refill.
LaunchGrants == 0..(MaxPoolCfg + 1)

\* Mutant of refill_strict: a failed launch ends the refill with Ok.
RefillStrictLenient(p, k) == [ok |-> TRUE, pool |-> refill_best_effort(p, k)]

\* SandboxPool::refill_strict: [ok, pool]; a failed launch ends it with Err.
RECURSIVE refill_strict(_, _)
refill_strict(p, k) ==
    IF Len(p.idle) >= p.target_idle
    THEN [ok |-> TRUE, pool |-> p]
    ELSE IF CanLaunch(p, k)
    THEN refill_strict([Launch(p) EXCEPT !.idle = Append(@, p.launched + 1)], k - 1)
    ELSE [ok |-> FALSE, pool |-> p]

\* A SandboxPool with nothing launched.
EmptyPool(target_idle) == [idle |-> <<>>, target_idle |-> target_idle, launched |-> 0]

\* SandboxPool::new with a launcher that grants k launches: [ok, pool]; on
\* Err, pool is the value that is dropped.
SandboxPoolNew(target_idle, k) == refill_strict(EmptyPool(target_idle), k)

(* --------------------------- sandbox client ---------------------------- *)

\* A handle that no launch has produced.
NoClient == [made |-> FALSE, proc |-> "none", terms |-> 0, ended |-> 0, dropped |-> FALSE]

\* SandboxClient::new on a spawned child.  proc: the child is "alive", has
\* "exited" (not waited for) or is "reaped"; terms counts the calls of
\* terminate, ended those that ended the child.
NewClient == [made |-> TRUE, proc |-> "alive", terms |-> 0, ended |-> 0, dropped |-> FALSE]

\* terminate that takes the child down whatever state it is in.
TerminateAgain(c) == [c EXCEPT !.terms = @ + 1, !.ended = @ + 1, !.proc = "reaped"]

\* SandboxClient::terminate: shutdown, kill, wait.  On a reaped child the
\* shutdown request fails and kill and wait have nothing left to do.
Terminate(c) ==
    [c EXCEPT !.terms = @ + 1,
              !.ended = IF c.proc = "reaped" THEN @ ELSE @ + 1,
              !.proc = "reaped"]

\* Drop for SandboxClient.
DropClient(c) == [Terminate(c) EXCEPT !.dropped = TRUE]

(* --------------------------- session manager --------------------------- *)

\* The value of actors[s] for a session id that is not a key of the map.
NoEntry == [aid |-> None, pending |-> 0, state |-> "Idle"]

\* The keys of the actors map.
Live(m) == {s \in Sessions : m.actors[s].aid # None}

\* Mutant of SaturatingDec: a token clears the pending count.
SaturatingDecToZero(n) == 0

\* usize::saturating_sub(1)
SaturatingDec(n) == IF n = 0 THEN 0 ELSE n - 1

\* Mutant of DrainToken: a token that leaves requests pending leaves the
\* state as the dispatch set it.
DrainTokenKeepingState(m, s) ==
    IF m.actors[s].aid = None
    THEN m
    ELSE IF m.actors[s].pending <= 1
    THEN [m EXCEPT !.actors[s].pending = 0,
                   !.actors[s].state = "Idle",
                   !.idle_index = @ \cup {s},
                   !.idle_lru = IF s \in m.idle_index THEN @ ELSE Append(@, s)]
    ELSE [m EXCEPT !.actors[s].pending = @ - 1]

\* One iteration of the loop of drain_finished_events, for a token of
\* session s.
DrainToken(m, s) ==
    IF s \notin Live(m)
    THEN m
    ELSE LET pending == SaturatingDec(m.actors[s].pending) IN
         IF pending = 0
         THEN [m EXCEPT !.actors[s].pending = 0,
                        !.actors[s].state = "Idle",
                        !.idle_index = @ \cup {s},
                        !.idle_lru = IF s \in m.idle_index THEN @ ELSE Append(@, s)]
         ELSE [m EXCEPT !.actors[s].pending = pending,
                        !.actors[s].state = "Busy"]

\* drain_finished_events: [m, rest], rest being the tokens left in the
\* channel.
RECURSIVE drain_finished_events(_, _, _)
drain_finished_events(m, tokens, max_batch) ==
    IF max_batch = 0 \/ tokens = <<>>
    THEN [m |-> m, rest |-> tokens]
    ELSE drain_finished_events(DrainToken(m, Head(tokens)), Tail(tokens), max_batch - 1)

\* evict_oldest_idle_actor that, finding nothing idle, removes a live session
\* whatever its pending count.
EvictAnyLive(m) ==
    IF m.idle_lru # <<>>
    THEN LET s == Head(m.idle_lru) IN
         [ok |-> TRUE,
          m |-> [m EXCEPT !.idle_lru = Tail(@), !.idle_index = @ \ {s}, !.actors[s] = NoEntry]]
    ELSE IF Live(m) = {}
    THEN [ok |-> FALSE, m |-> m]
    ELSE LET s == CHOOSE t \in Live(m) : TRUE IN
         [ok |-> TRUE, m |-> [m EXCEPT !.idle_index = @ \ {s}, !.actors[s] = NoEntry]]

\* evict_oldest_idle_actor: [ok, m].
RECURSIVE evict_oldest_idle_actor(_)
evict_oldest_idle_actor(m) ==
    IF m.idle_lru = <<>>
    THEN [ok |-> FALSE, m |-> m]
    ELSE LET s == Head(m.idle_lru)
             m1 == [m EXCEPT !.idle_lru = Tail(@)]
             m2 == [m1 EXCEPT !.idle_index = @ \ {s}]
         IN  IF s \notin m.idle_index
             THEN evict_oldest_idle_actor(m1)
             ELSE IF ~(s \in Live(m2) /\ m2.actors[s].pending = 0)
             THEN evict_oldest_idle_actor(m2)
             ELSE [ok |-> TRUE, m |-> [m2 EXCEPT !.actors[s] = NoEntry]]

\* Mutant of evict_until_capacity: evicts only above the cap (> for >=).
RECURSIVE EvictAboveCapacity(_, _)
EvictAboveCapacity(m, max_sessions) ==
    IF Cardinality(Live(m)) > max_sessions
    THEN LET e == evict_oldest_idle_actor(m) IN
         IF ~e.ok THEN e ELSE EvictAboveCapacity(e.m, max_sessions)
    ELSE [ok |-> TRUE, m |-> m]

\* evict_until_capacity: [ok, m].
RECURSIVE evict_until_capacity(_, _)
evict_until_capacity(m, max_sessions) ==
    IF Cardinality(Live(m)) >= max_sessions
    THEN LET e == evict_oldest_idle_actor(m) IN
         IF ~e.ok THEN e ELSE evict_until_capacity(e.m, max_sessions)
    ELSE [ok |-> TRUE, m |-> m]

\* Mutant of remove_from_idle_lru: the id stays in idle_index.
KeepInIdleIndex(m, s) == m

\* remove_from_idle_lru
remove_from_idle_lru(m, s) == [m EXCEPT !.idle_index = @ \ {s}]

\* The state the manager gives an entry at dispatch.
DispatchState(reset) == IF reset THEN "ResetPending" ELSE "Busy"

\* Mutant of AdmitAndDispatch: the spawn and insert run for every request,
\* not only when the session id has no actor.
AdmitAndRespawn(m, cfg, r, s, reset, spawn_ok, gone) ==
    LET known == s \in Live(m)
        e == IF known THEN [ok |-> TRUE, m |-> m]
             ELSE evict_until_capacity(m, Max(cfg.max_sessions, 1))
        m1 == [e.m EXCEPT !.actors[s] = [aid |-> r, pending |-> 0, state |-> "Idle"]]
        m2 == [remove_from_idle_lru(m1, s) EXCEPT
                  !.actors[s].pending = @ + 1,
                  !.actors[s].state = DispatchState(reset)]
    IN  IF ~e.ok THEN [what |-> "overloaded", m |-> e.m, aid |-> None]
        ELSE IF ~spawn_ok THEN [what |-> "spawn_failed", m |-> e.m, aid |-> None]
        ELSE [what |-> "dispatched", m |-> m2, aid |-> r]

\* The body of the manager loop from the admission test to the send, for
\* request r of session s, after the first drain.  spawn_ok: whether
\* spawn_session_actor succeeds; gone: the actors whose receiver is dropped.
\* Result: what: "overloaded" | "spawn_failed" | "send_failed" | "dispatched".
AdmitAndDispatch(m, cfg, r, s, reset, spawn_ok, gone) ==
    LET known == s \in Live(m)
        e == IF known THEN [ok |-> TRUE, m |-> m]
             ELSE evict_until_capacity(m, Max(cfg.max_sessions, 1))
        m1 == IF known THEN m
              ELSE [e.m EXCEPT !.actors[s] = [aid |-> r, pending |-> 0, state |-> "Idle"]]
        aid == m1.actors[s].aid
        m2 == [remove_from_idle_lru(m1, s) EXCEPT
                  !.actors[s].pending = @ + 1,
                  !.actors[s].state = DispatchState(reset)]
    IN  IF ~e.ok THEN [what |-> "overloaded", m |-> e.m, aid |-> None]
        ELSE IF ~known /\ ~spawn_ok THEN [what |-> "spawn_failed", m |-> e.m, aid |-> None]
        ELSE IF aid \in gone
        THEN [what |-> "send_failed",
              m |-> remove_from_idle_lru([m2 EXCEPT !.actors[s] = NoEntry], s),
              aid |-> None]
        ELSE [what |-> "dispatched", m |-> m2, aid |-> aid]

(* ----------------------------- try_dispatch ---------------------------- *)

\* The capacity spawn_session_manager gives the ingress channel.
IngressChannelCapacity(cfg) == Max(cfg.ingress_capacity, 1)

\* Mutant of TrySend: one request more than the capacity is let in.
TrySendOneMore(queue, capacity, receiver_alive) ==
    IF ~receiver_alive THEN "Disconnected"
    ELSE IF Len(queue) > capacity THEN "Full"
    ELSE "Ok"

\* SyncSender::try_send on the ingress channel: "Ok" | "Full" | "Disconnected".
TrySend(queue, capacity, receiver_alive) ==
    IF ~receiver_alive THEN "Disconnected"
    ELSE IF Len(queue) >= capacity THEN "Full"
    ELSE "Ok"

\* SessionManagerHandle::try_dispatch: the error kind returned, "none" for Ok(()).
TryDispatchResult(sent) ==
    CASE sent = "Ok" -> "none"
      [] sent = "Full" -> "overloaded"
      [] sent = "Disconnected" -> "internal"

(* ---------------------------- session actor ---------------------------- *)

\* PoolCommand
AcquireCmd(aid) == [kind |-> "Acquire", aid |-> aid, handle |-> None]

RetireCmd(h) == [kind |-> "Retire", aid |-> None, handle |-> h]

\* An actor id that has no thread (yet).  handle and initialized are the
\* thread's `session` variable; dropped (the handle a reset took out of it in
\* the current request) and owned (every handle it has held) are history.
NoThread ==
    [sid |-> None, pc |-> "none", mailbox |-> <<>>, open |-> FALSE,
     handle |-> None, initialized |-> FALSE, cur |-> None, reply |-> -1,
     run_init |-> FALSE, dropped |-> None, owned |-> {}]

\* Mutant of StartRun: the request is built with initialize = false.
StartRunWithoutInitialize(t) == [t EXCEPT !.pc = "running", !.run_init = FALSE]

\* run_actor_request up to the call of handle.run: the SandboxRunRequest is
\* built with initialize = !initialized and the actor blocks in run.
StartRun(t) == [t EXCEPT !.pc = "running", !.run_init = ~t.initialized]

\* Mutant of BeginRequest: the actor serves the newest message first.
BeginNewestFirst(t, aid, rs) ==
    LET n == Len(t.mailbox)
        r == t.mailbox[n]
        retire == rs[r].reset /\ t.handle # None
        t1 == [t EXCEPT !.cur = r,
                        !.mailbox = SubSeq(@, 1, n - 1),
                        !.dropped = IF retire THEN t.handle ELSE None,
                        !.handle = IF retire THEN None ELSE @,
                        !.initialized = IF retire THEN FALSE ELSE @]
        cmds1 == IF retire THEN <<RetireCmd(t.handle)>> ELSE <<>>
    IN  IF t1.handle = None
        THEN [t |-> [t1 EXCEPT !.pc = "acquire"], cmds |-> Append(cmds1, AcquireCmd(aid))]
        ELSE [t |-> StartRun(t1), cmds |-> cmds1]

\* Mutant of BeginRequest: on reset the replacement is asked for before the
\* old handle is retired.
BeginAcquireFirst(t, aid, rs) ==
    LET r == Head(t.mailbox)
        retire == rs[r].reset /\ t.handle # None
        t1 == [t EXCEPT !.cur = r,
                        !.mailbox = Tail(@),
                        !.dropped = IF retire THEN t.handle ELSE None,
                        !.handle = IF retire THEN None ELSE @,
                        !.initialized = IF retire THEN FALSE ELSE @]
        cmds1 == IF retire THEN <<RetireCmd(t.handle)>> ELSE <<>>
    IN  IF t1.handle = None
        THEN [t |-> [t1 EXCEPT !.pc = "acquire"], cmds |-> <<AcquireCmd(aid)>> \o cmds1]
        ELSE [t |-> StartRun(t1), cmds |-> cmds1]

\* Mutant of BeginRequest: the reset flag is ignored.
BeginIgnoringReset(t, aid, rs) ==
    LET r == Head(t.mailbox)
        t1 == [t EXCEPT !.cur = r, !.mailbox = Tail(@), !.dropped = None]
    IN  IF t1.handle = None
        THEN [t |-> [t1 EXCEPT !.pc = "acquire"], cmds |-> <<AcquireCmd(aid)>>]
        ELSE [t |-> StartRun(t1), cmds |-> <<>>]

\* run_session_actor_loop takes the oldest message of its channel, and
\* run_actor_request runs from its entry to the first point where it blocks:
\* [t, cmds], cmds being the commands sent to the pool broker, in order.
\* rs: the requests, by id.
BeginRequest(t, aid, rs) ==
    LET r == Head(t.mailbox)
        retire == rs[r].reset /\ t.handle # None
        t1 == [t EXCEPT !.cur = r,
                        !.mailbox = Tail(@),
                        !.dropped = IF retire THEN t.handle ELSE None,
                        !.handle = IF retire THEN None ELSE @,
                        !.initialized = IF retire THEN FALSE ELSE @]
        cmds1 == IF retire THEN <<RetireCmd(t.handle)>> ELSE <<>>
    IN  IF t1.handle = None
        THEN [t |-> [t1 EXCEPT !.pc = "acquire"], cmds |-> Append(cmds1, AcquireCmd(aid))]
        ELSE [t |-> StartRun(t1), cmds |-> cmds1]

\* Mutant of AfterAcquire: an actor whose acquire fails stays blocked in
\* acquire_handle.
AfterAcquireStuck(t) ==
    IF t.reply = None
    THEN [t |-> [t EXCEPT !.reply = -1], result |-> "none"]
    ELSE [t |-> [t EXCEPT !.pc = "running", !.run_init = TRUE, !.handle = t.reply,
                          !.initialized = FALSE, !.reply = -1, !.owned = @ \cup {t.reply}],
          result |-> "none"]

\* Mutant of AfterAcquire: a reset whose acquire fails takes the retired
\* handle back into `session`.
AfterAcquireKeepingOld(t) ==
    IF t.reply = None
    THEN [t |-> [t EXCEPT !.pc = "finish", !.reply = -1, !.handle = t.dropped],
          result |-> "closed"]
    ELSE [t |-> [t EXCEPT !.pc = "running", !.run_init = TRUE, !.handle = t.reply,
                          !.initialized = FALSE, !.reply = -1, !.owned = @ \cup {t.reply}],
          result |-> "none"]

\* run_actor_request after acquire_handle returned: Ok(h) stores (h, false)
\* and runs; Err returns early, dropping respond_to without sending.
\* [t, result]: result is the request's response, "none" while it runs.
AfterAcquire(t) ==
    IF t.reply = None
    THEN [t |-> [t EXCEPT !.pc = "finish", !.reply = -1], result |-> "closed"]
    ELSE [t |-> StartRun([t EXCEPT !.handle = t.reply, !.initialized = FALSE, !.reply = -1,
                                   !.owned = @ \cup {t.reply}]),
          result |-> "none"]

\* What the worker process can write back to a Run, or fail to.
RunOutcomes == {"run_result", "error", "pong", "garbled", "eof", "io_error"}

\* Mutant of AfterRun: a failed handle is kept by the session.
AfterRunKeepingHandle(t, run) ==
    [t |-> [t EXCEPT !.pc = "finish",
                     !.initialized = IF run = "Ok" /\ t.run_init THEN TRUE ELSE @],
     cmds |-> <<>>,
     result |-> IF run = "Ok" THEN "ok" ELSE "internal"]

\* run_actor_request after handle.run returned: [t, cmds, result].
AfterRun(t, run) ==
    IF run = "Ok"
    THEN [t |-> [t EXCEPT !.pc = "finish",
                          !.initialized = IF t.run_init THEN TRUE ELSE @],
          cmds |-> <<>>,
          result |-> "ok"]
    ELSE [t |-> [t EXCEPT !.pc = "finish", !.handle = None, !.initialized = FALSE],
          cmds |-> IF t.handle # None THEN <<RetireCmd(t.handle)>> ELSE <<>>,
          result |-> "internal"]

\* Mutant of ExitThread: the loop is left with the handle still in `session`
\* and nothing is sent to the pool broker.
ExitThreadKeepingHandle(t) == [t |-> [t EXCEPT !.pc = "exited"], cmds |-> <<>>]

\* The end of run_session_actor_loop: recv failed, the handle is retired.
ExitThread(t) ==
    [t |-> [t EXCEPT !.pc = "exited", !.handle = None, !.initialized = FALSE],
     cmds |-> IF t.handle # None THEN <<RetireCmd(t.handle)>> ELSE <<>>]

(* ------------------------------- worker -------------------------------- *)

\* A worker whose RlmRepl has no repl_env.
NoEnv == [has_env |-> FALSE, mem |-> {}]

\* sandbox_worker run_request for request r: the interpreter afterwards.
\* initialize=true replaces the interpreter (ReplCore::init builds a new
\* ReplEnv); initialize=false runs against the existing one.
WorkerRun(env, initialize, r) ==
    IF initialize
    THEN [has_env |-> TRUE, mem |-> {r}]
    ELSE [env EXCEPT !.mem = @ \cup {r}]

\* RlmRepl::new: no ReplHandle (handle), no ReplEnv in the ReplCore (env: the
\* number of the interpreter, 0 for none), hence no bindings and no context.
NoRepl == [handle |-> FALSE, env |-> 0, bindings |-> {}, context |-> "unset"]

\* context_from_value and convert_context_for_repl: what ReplEnv::initialize
\* loads as the `context` global; an absent context loads the empty text.
LoadedContext(context) == IF context = "absent" THEN "empty" ELSE context

\* RlmRepl::setup_context: [ok, repl].  A ReplHandle is made if there is
\* none; ReplCore::init builds a new ReplEnv from the context and, only when
\* that succeeded, puts it in place of the old one.
setup_context(r, context, fail) ==
    IF fail = "setup"
    THEN [ok |-> FALSE, repl |-> [r EXCEPT !.handle = TRUE]]
    ELSE [ok |-> TRUE,
          repl |-> [handle |-> TRUE, env |-> r.env + 1, bindings |-> {},
                    context |-> LoadedContext(context)]]

\* RlmRepl::execute_code for the run of line n: [ok, repl].
execute_code(r, n, fail) ==
    IF ~r.handle \/ r.env = 0 \/ fail = "execute"
    THEN [ok |-> FALSE, repl |-> r]
    ELSE [ok |-> TRUE, repl |-> [r EXCEPT !.bindings = @ \cup {n}]]

\* RlmRepl::run_completion_loop for the run of line n: [ok, repl]; the code
\* blocks of the model's answers run in the interpreter, if there is one.
run_completion_loop(r, n, fail) ==
    IF ~r.handle \/ fail = "completion"
    THEN [ok |-> FALSE, repl |-> r]
    ELSE [ok |-> TRUE, repl |-> IF r.env = 0 THEN r ELSE [r EXCEPT !.bindings = @ \cup {n}]]

\* SandboxRunResult of a run with code, of a completion, and none.
CodeResult == [response |-> FALSE, stdout |-> TRUE, stderr |-> TRUE]

CompletionResult == [response |-> TRUE, stdout |-> FALSE, stderr |-> FALSE]

NoResult == [response |-> FALSE, stdout |-> FALSE, stderr |-> FALSE]

\* run_request with a context even when initialize is false.
RunRequestAlwaysLoads(r, req, n, fail) ==
    LET s == setup_context(r, req.context, fail)
        x == IF ~s.ok THEN s
             ELSE IF req.code THEN execute_code(s.repl, n, fail)
             ELSE run_completion_loop(s.repl, n, fail)
    IN  [ok |-> x.ok,
         result |-> IF ~x.ok THEN NoResult ELSE IF req.code THEN CodeResult ELSE CompletionResult,
         repl |-> x.repl]

\* run_request that answers a completion in the shape of a code run.
RunRequestOneShape(r, req, n, fail) ==
    LET s == IF req.initialize THEN setup_context(r, req.context, fail)
             ELSE [ok |-> TRUE, repl |-> r]
        x == IF ~s.ok THEN s
             ELSE IF req.code THEN execute_code(s.repl, n, fail)
             ELSE run_completion_loop(s.repl, n, fail)
    IN  [ok |-> x.ok, result |-> IF x.ok THEN CodeResult ELSE NoResult, repl |-> x.repl]

\* sandbox_worker run_request for the run request of line n: [ok, result,
\* repl]; fail names the step that fails, if it is reached.
run_request(r, req, n, fail) ==
    LET s == IF req.initialize THEN setup_context(r, req.context, fail)
             ELSE [ok |-> TRUE, repl |-> r]
        x == IF ~s.ok THEN s
             ELSE IF req.code THEN execute_code(s.repl, n, fail)
             ELSE run_completion_loop(s.repl, n, fail)
    IN  [ok |-> x.ok,
         result |-> IF ~x.ok THEN NoResult ELSE IF req.code THEN CodeResult ELSE CompletionResult,
         repl |-> x.repl]

\* emit of a response to line n: written unless the write to stdout fails.
Response(n, kind, result, open) == [for |-> n, kind |-> kind, result |-> result, written |-> open]

\* The worker's loop body that answers every line, blank ones too.
ServeLineAnswersBlank(line, n, r, open, fail) ==
    [out |-> <<Response(n, IF line.kind = "ping" THEN "pong" ELSE "error", NoResult, open)>>,
     pc |-> "serving", repl |-> r]

\* The body of the worker's loop for line n: [out, pc, repl].  A failed emit
\* ends the worker, except after a line that could not be read or parsed.
ServeLine(line, n, r, open, fail) ==
    LET after == IF open THEN "serving" ELSE "failed" IN
    CASE line.kind = "blank" -> [out |-> <<>>, pc |-> "serving", repl |-> r]
      [] line.kind \in {"unreadable", "invalid"} ->
             [out |-> <<Response(n, "error", NoResult, open)>>, pc |-> "serving", repl |-> r]
      [] line.kind = "ping" ->
             [out |-> <<Response(n, "pong", NoResult, open)>>, pc |-> after, repl |-> r]
      [] line.kind = "shutdown" ->
             [out |-> <<Response(n, "ack", NoResult, open)>>,
              pc |-> IF open THEN "done" ELSE "failed", repl |-> r]
      [] line.kind = "run" ->
             LET x == run_request(r, line, n, fail) IN
             [out |-> <<Response(n, IF x.ok THEN "run_result" ELSE "error", x.result, open)>>,
              pc |-> after, repl |-> x.repl]

(* ---------------------------- final answer ----------------------------- *)

\* Unicode whitespace, as str::trim and the regex class \s see it.
IsSpace(c) == c \in {"nl", "sp"}

\* str::trim_matches(c)
RECURSIVE TrimMatches(_, _)
TrimMatches(s, cs) ==
    IF s = <<>> THEN s
    ELSE IF Head(s) \in cs THEN TrimMatches(Tail(s), cs)
    ELSE IF s[Len(s)] \in cs THEN TrimMatches(SubSeq(s, 1, Len(s) - 1), cs)
    ELSE s

\* str::trim
Trim(s) == TrimMatches(s, {"nl", "sp"})

\* (?m)^\s* followed by the marker at position q: the marker is at q and
\* only whitespace lies between some start of a line and q.
MarkerAt(text, marker, q) ==
    /\ text[q] = marker
    /\ \E p \in 1..q :
           /\ p = 1 \/ text[p - 1] = "nl"
           /\ \A i \in p..(q - 1) : IsSpace(text[i])

\* Regex::captures for (?ms)^\s*<marker>(.*?)\): the leftmost match, its
\* group the shortest text up to a closing parenthesis: [found, content].
Captures(text, marker) ==
    LET starts == {q \in 1..Len(text) :
                      /\ MarkerAt(text, marker, q)
                      /\ \E c \in (q + 1)..Len(text) : text[c] = ")"}
    IN  IF starts = {} THEN [found |-> FALSE, content |-> <<>>]
        ELSE LET q == CHOOSE x \in starts : \A y \in starts : x <= y
                 c == CHOOSE x \in (q + 1)..Len(text) :
                          /\ text[x] = ")"
                          /\ \A y \in (q + 1)..(x - 1) : text[y] # ")"
             IN  [found |-> TRUE, content |-> SubSeq(text, q + 1, c - 1)]

\* Mutant of find_final_answer: FINAL is looked for first.
FindFinalFirst(text) ==
    LET f == Captures(text, "FINAL(")
        v == Captures(text, "FINAL_VAR(")
    IN  IF f.found THEN [kind |-> "Final", content |-> Trim(f.content)]
        ELSE IF v.found THEN [kind |-> "FinalVar", content |-> Trim(v.content)]
        ELSE [kind |-> "none", content |-> <<>>]

\* Mutant of find_final_answer: the captured text is returned as it is.
FindFinalUntrimmed(text) ==
    LET v == Captures(text, "FINAL_VAR(")
        f == Captures(text, "FINAL(")
    IN  IF v.found THEN [kind |-> "FinalVar", content |-> v.content]
        ELSE IF f.found THEN [kind |-> "Final", content |-> f.content]
        ELSE [kind |-> "none", content |-> <<>>]

\* find_final_answer: [kind, content], kind "none" for None.
find_final_answer(text) ==
    LET v == Captures(text, "FINAL_VAR(")
        f == Captures(text, "FINAL(")
    IN  IF v.found THEN [kind |-> "FinalVar", content |-> Trim(v.content)]
        ELSE IF f.found THEN [kind |-> "Final", content |-> Trim(f.content)]
        ELSE [kind |-> "none", content |-> <<>>]

\* The name check_for_final_answer looks up: trimmed, then stripped of
\* quotes, then of newlines.
VariableName(content) == TrimMatches(TrimMatches(Trim(content), {"quote"}), {"nl"})

\* ReplEnv::get_variable of a bound name: the str() of its value.
ValueOf(name) == <<"value of">> \o name

NoAnswer == [some |-> FALSE, value |-> <<>>]

\* check_for_final_answer: [some, value]; locals are the names bound in
\* __rlm_locals.
check_for_final_answer(text, locals) ==
    LET f == find_final_answer(text) IN
    CASE f.kind = "none" -> NoAnswer
      [] f.kind = "Final" -> [some |-> TRUE, value |-> f.content]
      [] f.kind = "FinalVar" ->
             IF VariableName(f.content) \in locals
             THEN [some |-> TRUE, value |-> ValueOf(VariableName(f.content))]
             ELSE NoAnswer

(* --------------------------- completion loop --------------------------- *)

\* Message: role and content; the content is given by its kind and by the
\* turn, iteration and code block it was made for.
Msg(role, kind, t, i, b, output) ==
    [role |-> role, kind |-> kind, turn |-> t, iter |-> i, block |-> b, output |-> output]

\* build_system_prompt
SystemMsg == Msg("system", "system", 0, 0, 0, "none")

\* next_action_prompt for the query of turn t
next_action_prompt(t, iteration, final_answer) ==
    IF final_answer THEN Msg("user", "final_prompt", t, iteration, 0, "none")
    ELSE Msg("user", "next_action", t, iteration, 0, "none")

\* Mutant of reset_messages_to_system_prompt: a history is kept as it is.
KeepHistory(msgs) == IF msgs = <<>> THEN <<SystemMsg>> ELSE msgs

\* RlmRepl::reset_messages_to_system_prompt
reset_messages_to_system_prompt(msgs) ==
    IF msgs # <<>> /\ msgs[1] = SystemMsg THEN <<msgs[1]>> ELSE <<SystemMsg>>

\* Mutant of ReplExecute: an exception of the user's code fails the call.
ReplExecuteBubbles(locals, kind) ==
    CASE kind \in {"host_fails", "raises", "blocked_import", "outside_jail"} ->
             [ok |-> FALSE, stderr |-> "", locals |-> locals]
      [] kind = "binds_a" -> [ok |-> TRUE, stderr |-> "", locals |-> locals \cup {<<"a">>}]
      [] OTHER -> [ok |-> TRUE, stderr |-> "", locals |-> locals]

\* ReplEnv::execute of a block: [ok, stderr, locals].  An exception of the
\* user's code is printed into the captured stderr; the call is Err only
\* when the interpreter itself fails (lock, preamble or postamble).
ReplExecute(locals, kind) ==
    CASE kind = "host_fails" -> [ok |-> FALSE, stderr |-> "", locals |-> locals]
      [] kind = "raises" -> [ok |-> TRUE, stderr |-> "Traceback", locals |-> locals]
      [] kind = "blocked_import" -> [ok |-> TRUE, stderr |-> "ImportError", locals |-> locals]
      [] kind = "outside_jail" -> [ok |-> TRUE, stderr |-> "PermissionError", locals |-> locals]
      [] kind = "binds_a" -> [ok |-> TRUE, stderr |-> "", locals |-> locals \cup {<<"a">>}]
      [] OTHER -> [ok |-> TRUE, stderr |-> "", locals |-> locals]

\* utils::execute_code and format_execution_result: the REPL output shown to
\* the model.
ExecOutput(result) ==
    IF ~result.ok THEN "Error executing code"
    ELSE IF result.stderr # "" THEN result.stderr
    ELSE "output"

\* process_code_execution from block b on, for iteration i of turn t:
\* [messages, locals, exec].
RECURSIVE process_code_execution(_, _, _, _, _, _, _)
process_code_execution(msgs, locals, exec, blocks, b, t, i) ==
    IF b > Len(blocks) THEN [messages |-> msgs, locals |-> locals, exec |-> exec]
    ELSE LET result == ReplExecute(locals, blocks[b]) IN
         process_code_execution(
             Append(msgs, Msg("user", "code_executed", t, i, b, ExecOutput(result))),
             result.locals,
             Append(exec, [iter |-> i, block |-> b, kind |-> blocks[b], result |-> result,
                           before |-> locals]),
             blocks, b + 1, t, i)

\* Mutant of AfterResponse: the next-action prompt stays in the history.
AfterResponseKeepingPrompt(msgs, locals, exec, resp, t, i) ==
    LET ran == IF resp.blocks # <<>>
               THEN process_code_execution(msgs, locals, exec, resp.blocks, 1, t, i)
               ELSE [messages |-> Append(msgs, Msg("assistant", "you_responded", t, i, 0, "none")),
                     locals |-> locals, exec |-> exec]
    IN  [messages |-> ran.messages, locals |-> ran.locals, exec |-> ran.exec,
         answer |-> check_for_final_answer(resp.text, ran.locals)]

\* Mutant of AfterResponse: only the first code block runs.
AfterResponseFirstBlock(msgs, locals, exec, resp, t, i) ==
    LET popped == SubSeq(msgs, 1, Len(msgs) - 1)
        ran == IF resp.blocks # <<>>
               THEN process_code_execution(popped, locals, exec, <<resp.blocks[1]>>, 1, t, i)
               ELSE [messages |-> Append(popped, Msg("assistant", "you_responded", t, i, 0, "none")),
                     locals |-> locals, exec |-> exec]
    IN  [messages |-> ran.messages, locals |-> ran.locals, exec |-> ran.exec,
         answer |-> check_for_final_answer(resp.text, ran.locals)]

\* The body of run_completion_loop's iteration i after the model answered:
\* the prompt is popped, the code blocks run or the response is recorded,
\* and the response is searched for a final answer:
\* [messages, locals, exec, answer].
AfterResponse(msgs, locals, exec, resp, t, i) ==
    LET popped == SubSeq(msgs, 1, Len(msgs) - 1)
        ran == IF resp.blocks # <<>>
               THEN process_code_execution(popped, locals, exec, resp.blocks, 1, t, i)
               ELSE [messages |-> Append(popped, Msg("assistant", "you_responded", t, i, 0, "none")),
                     locals |-> locals, exec |-> exec]
    IN  [messages |-> ran.messages, locals |-> ran.locals, exec |-> ran.exec,
         answer |-> check_for_final_answer(resp.text, ran.locals)]

\* Mutant of EnterIteration: the loop runs one iteration more.
EnterIterationOneMore(msgs, t, i, max) ==
    IF i <= max
    THEN [messages |-> Append(msgs, next_action_prompt(t, i, FALSE)), pc |-> "call"]
    ELSE [messages |-> Append(msgs, next_action_prompt(t, max, TRUE)), pc |-> "final_call"]

\* run_completion_loop up to its next model call: the prompt of iteration i
\* is pushed, or the final prompt once the iterations are used up:
\* [messages, pc].
EnterIteration(msgs, t, i, max) ==
    IF i < max
    THEN [messages |-> Append(msgs, next_action_prompt(t, i, FALSE)), pc |-> "call"]
    ELSE [messages |-> Append(msgs, next_action_prompt(t, max, TRUE)), pc |-> "final_call"]

\* What a turn returned: Ok with a value or Err, and, when the value came
\* from the call after the last iteration, the response of that call.
TurnResult(kind, value, last, resp) ==
    [kind |-> kind, value |-> value, last |-> last, resp |-> resp]

NoResponse == [blocks |-> <<>>, text |-> <<>>]

NoTurnResult == TurnResult("none", <<>>, FALSE, NoResponse)

TurnError == TurnResult("error", <<>>, FALSE, NoResponse)

(* ------------------------------ actions -------------------------------- *)

\* No call on the pool yet.
NoOp == [op |-> "none", k |-> 0, target |-> 0, before |-> EmptyPool(0), handle |-> None, ok |-> TRUE]


\* The manager's maps as one record.
M == [actors |-> actors, idle_lru |-> idle_lru, idle_index |-> idle_index]

SetM(m) ==
    /\ actors' = m.actors
    /\ idle_lru' = m.idle_lru
    /\ idle_index' = m.idle_index

\* The session ids a client may use next: ids are opaque, so the k-th
\* distinct id to appear is named k.
NextSessionIds(n) == 1..Min(n, Cardinality({reqs[i].sid : i \in DOMAIN reqs}) + 1)

\* Dropping an ActorEntry drops its sender: the threads whose entry is in
\* `before` and not in `after` lose their sender.
DropSenders(th, before, after) ==
    LET kept == {after[s].aid : s \in Sessions}
        lost == {before[s].aid : s \in Sessions} \ (kept \cup {None})
    IN  [a \in ReqIds |-> IF a \in lost THEN [th[a] EXCEPT !.open = FALSE] ELSE th[a]]

\* A request handler calls try_dispatch(SessionRequest{session_id: s, reset}).
TryDispatch(s, reset) ==
    /\ LET sent == TrySend(ingress, IngressChannelCapacity(config), managerAlive) IN
       /\ reqs' = Append(reqs, [sid |-> s, reset |-> reset, accepted |-> sent = "Ok",
                                result |-> TryDispatchResult(sent)])
       /\ ingress' = IF sent = "Ok" THEN Append(ingress, Len(reqs) + 1) ELSE ingress
    /\ UNCHANGED <<agentVars, workerVars, clientVars, config, mgrVars, finished, threads, poolQueue, poolVars, interp>>

\* One iteration of run_session_manager_loop up to the send to the actor
\* (or the `continue`): recv, drain, admission, dispatch.
ManagerRecv(spawn_ok) ==
    /\ managerAlive
    /\ mgrPc = "recv"
    /\ ingress # <<>>
    /\ LET r == Head(ingress)
           d == drain_finished_events(M, finished, DrainBatchBefore)
           gone == {a \in ReqIds : threads[a].pc = "exited"}
           o == AdmitAndDispatch(d.m, config, r, reqs[r].sid, reqs[r].reset, spawn_ok, gone)
           th == DropSenders(threads, actors, o.m.actors)
       IN  /\ ingress' = Tail(ingress)
           /\ finished' = d.rest
           /\ SetM(o.m)
           /\ mgrPc' = IF o.what \in {"overloaded", "spawn_failed"} THEN "recv" ELSE "drain"
           /\ reqs' = CASE o.what = "overloaded" -> [reqs EXCEPT ![r].result = "overloaded"]
                        [] o.what \in {"spawn_failed", "send_failed"} ->
                               [reqs EXCEPT ![r].result = "internal"]
                        [] OTHER -> reqs
           /\ threads' = IF o.what # "dispatched" THEN th
                         ELSE IF th[o.aid].pc = "none"
                         THEN [th EXCEPT ![o.aid] = [NoThread EXCEPT !.sid = reqs[r].sid, !.pc = "recv", !.open = TRUE,
                                                            !.mailbox = <<r>>]]
                         ELSE [th EXCEPT ![o.aid].mailbox = Append(@, r)]
    /\ UNCHANGED <<agentVars, workerVars, clientVars, config, managerAlive, poolQueue, poolVars, interp>>

\* The trailing drain_finished_events of the manager loop.
ManagerDrain ==
    /\ managerAlive
    /\ mgrPc = "drain"
    /\ LET d == drain_finished_events(M, finished, DrainBatchAfter) IN
       /\ finished' = d.rest
       /\ SetM(d.m)
    /\ mgrPc' = "recv"
    /\ UNCHANGED <<agentVars, workerVars, clientVars, config, reqs, ingress, managerAlive, threads, poolQueue, poolVars, interp>>

\* The manager thread ends while callers still hold a SessionManagerHandle
\* (the thread dies; recv itself fails only once every handle is gone):
\* request_receiver is dropped with the requests it buffers (their respond_to
\* with them), as is finished_receiver, and every actor's sender is dropped.
\* This is the only state in which try_send reports Disconnected.
ManagerGone ==
    /\ managerAlive
    /\ mgrPc = "recv"
    /\ managerAlive' = FALSE
    /\ reqs' = [i \in DOMAIN reqs |->
                   IF i \in Range(ingress) THEN [reqs[i] EXCEPT !.result = "closed"] ELSE reqs[i]]
    /\ ingress' = <<>>
    /\ finished' = <<>>
    /\ SetM([actors |-> [s \in Sessions |-> NoEntry], idle_lru |-> <<>>, idle_index |-> {}])
    /\ threads' = [a \in ReqIds |-> [threads[a] EXCEPT !.open = FALSE]]
    /\ UNCHANGED <<agentVars, workerVars, clientVars, config, mgrPc, poolQueue, poolVars, interp>>

\* run_session_actor_loop: recv returns a request; run_actor_request runs to
\* the point where it blocks (on the broker's answer or on the worker).
ActorRecv(a) ==
    /\ threads[a].pc = "recv"
    /\ threads[a].mailbox # <<>>
    /\ LET b == BeginRequest(threads[a], a, reqs) IN
       /\ threads' = [threads EXCEPT ![a] = b.t]
       /\ poolQueue' = poolQueue \o b.cmds
    /\ UNCHANGED <<agentVars, workerVars, clientVars, config, reqs, ingress, mgrVars, finished, poolVars, interp>>

\* run_session_actor_loop: recv fails (sender dropped, mailbox empty).
ActorExit(a) ==
    /\ threads[a].pc = "recv"
    /\ threads[a].mailbox = <<>>
    /\ ~threads[a].open
    /\ LET x == ExitThread(threads[a]) IN
       /\ threads' = [threads EXCEPT ![a] = x.t]
       /\ poolQueue' = poolQueue \o x.cmds
    /\ UNCHANGED <<agentVars, workerVars, clientVars, config, reqs, ingress, mgrVars, finished, poolVars, interp>>

\* The pool broker serves one command; k launches succeed before one fails.
\* The actor that sent Acquire is blocked in response.recv() and nothing else
\* acts on it, so its return from acquire_handle is part of this step.
PoolBroker(k) ==
    /\ poolQueue # <<>>
    /\ LET c == Head(poolQueue) IN
       IF c.kind = "Acquire"
       THEN LET res == PoolAcquire(pool, k)
                x == AfterAcquire([threads[c.aid] EXCEPT !.reply = res.handle])
            IN  /\ pool' = res.pool
                /\ threads' = [threads EXCEPT ![c.aid] = x.t]
                /\ reqs' = IF x.result = "none" THEN reqs
                           ELSE [reqs EXCEPT ![threads[c.aid].cur].result = x.result]
                /\ UNCHANGED <<terminated, interp>>
       ELSE /\ pool' = PoolRetire(pool, k)
            /\ terminated' = terminated \cup {c.handle}
            /\ interp' = [interp EXCEPT ![c.handle] = NoEnv]
            /\ UNCHANGED <<threads, reqs>>
    /\ poolQueue' = Tail(poolQueue)
    /\ UNCHANGED <<agentVars, workerVars, clientVars, config, ingress, mgrVars, finished>>

\* handle.run returns in the actor: the worker served the Run (run_result)
\* or the call failed.
RunReturn(a, outcome) ==
    /\ threads[a].pc = "running"
    /\ LET t == threads[a]
           x == AfterRun(t, IF outcome = "run_result" THEN "Ok" ELSE "Err")
       IN  /\ outcome = "run_result" => (t.run_init \/ interp[t.handle].has_env)
           /\ interp' = IF outcome = "run_result"
                        THEN [interp EXCEPT ![t.handle] = WorkerRun(@, t.run_init, t.cur)]
                        ELSE interp
           /\ threads' = [threads EXCEPT ![a] = x.t]
           /\ poolQueue' = poolQueue \o x.cmds
           /\ reqs' = [reqs EXCEPT ![t.cur].result = x.result]
    /\ UNCHANGED <<agentVars, workerVars, clientVars, config, ingress, mgrVars, finished, poolVars>>

\* run_session_actor_loop: the ActorFinished token is sent (and lost when
\* the manager's receiver is gone); the actor returns to recv.
ActorFinish(a) ==
    /\ threads[a].pc = "finish"
    /\ finished' = IF managerAlive THEN Append(finished, threads[a].sid) ELSE finished
    /\ threads' = [threads EXCEPT ![a].pc = "recv", ![a].cur = None, ![a].dropped = None]
    /\ UNCHANGED <<agentVars, workerVars, clientVars, config, reqs, ingress, mgrVars, poolQueue, poolVars, interp>>

\* The configurations explored: every limit from 0 (which the code raises
\* to 1) to its bound, the pool size following max_sessions.
Configs ==
    {[max_sessions |-> n, ingress_capacity |-> c, sandbox_pool_size |-> Min(n, MaxPoolCfg)] :
        n \in 0..MaxSessionsCfg, c \in 0..MaxIngressCfg}

\* The manager, its channels and its threads after spawn_session_manager.
InitSessions(configs) ==
    /\ config \in configs
    /\ reqs = <<>>
    /\ ingress = <<>>
    /\ managerAlive = TRUE
    /\ mgrPc = "recv"
    /\ actors = [s \in Sessions |-> NoEntry]
    /\ idle_lru = <<>>
    /\ idle_index = {}
    /\ finished = <<>>
    /\ threads = [a \in ReqIds |-> NoThread]
    /\ poolQueue = <<>>
    /\ interp = [h \in Handles |-> NoEnv]

\* No sandbox_worker process is followed line by line.
InitNoWorker ==
    /\ wPc = "none"
    /\ wRead = <<>>
    /\ wOut = <<>>
    /\ stdoutOpen = TRUE
    /\ repl = NoRepl

\* No response of the model is searched for a final answer.
InitNoFinal ==
    /\ fText = <<>>
    /\ fLocals = {}
    /\ fPc = "none"
    /\ fAnswer = NoAnswer

\* No RlmRepl is followed through its turns.
InitNoLoop ==
    /\ max_iterations = 0
    /\ messages = <<>>
    /\ lPc = "none"
    /\ lTurn = 0
    /\ lIter = 0
    /\ lLocals = {}
    /\ lCalls = <<>>
    /\ lResps = <<>>
    /\ lExec = <<>>
    /\ lResult = NoTurnResult
    /\ repl_env = FALSE

\* No HTTP request is handled.
InitNoHttp ==
    /\ headers = [reset |-> [present |-> FALSE, value |-> <<>>], session |-> "absent"]
    /\ payload = [messages |-> <<>>, model |-> "absent", stream |-> "absent", reset |-> "absent"]
    /\ hPc = "none"
    /\ hSent = <<>>
    /\ hResponse = [status |-> 0, content |-> "none"]

\* No interpreter runs code and llm_query is not called.
InitNoRepl ==
    /\ subcall = [messages |-> <<>>, outcome |-> "none", rejected |-> "no", calls |-> 0]
    /\ pyGlobals = <<>>
    /\ pyLocals = <<>>
    /\ pySys = [stdout |-> "none", stderr |-> "none", trace |-> "none"]
    /\ pyBound = <<>>
    /\ lastExec = [n |-> 0]

InitNoAgent == InitNoFinal /\ InitNoLoop /\ InitNoHttp /\ InitNoRepl

InitWith(configs) ==
    /\ InitNoAgent
    /\ InitSessions(configs)
    /\ pool = PoolNew(config.sandbox_pool_size)
    /\ terminated = {}
    /\ phase = "none"
    /\ clients = [h \in Handles |-> NoClient]
    /\ failedClients = <<>>
    /\ held = {}
    /\ lastOp = NoOp
    /\ InitNoWorker

Init == InitWith(Configs)

Next ==
    \/ /\ Len(reqs) < MaxRequests
       /\ \E s \in NextSessionIds(NumSessions), reset \in BOOLEAN : TryDispatch(s, reset)
    \/ \E spawn_ok \in BOOLEAN : ManagerRecv(spawn_ok)
    \/ ManagerDrain
    \/ ManagerGone
    \/ \E a \in ReqIds : ActorRecv(a)
    \/ \E a \in ReqIds : ActorExit(a)
    \/ \E k \in LaunchGrants : PoolBroker(k)
    \/ \E a \in ReqIds, outcome \in RunOutcomes : RunReturn(a, outcome)
    \/ \E a \in ReqIds : ActorFinish(a)

Spec == Init /\ [][Next]_vars

\* The runs of Spec under a client that issues a request only once every
\* request it had accepted has its response (a result, or a closed channel).
NextSequential ==
    \/ /\ Len(reqs) < MaxRequests
       /\ \A q \in 1..Len(reqs) : reqs[q].accepted => reqs[q].result # "none"
       /\ \E s \in NextSessionIds(NumSessions), reset \in BOOLEAN : TryDispatch(s, reset)
    \/ \E spawn_ok \in BOOLEAN : ManagerRecv(spawn_ok)
    \/ ManagerDrain
    \/ ManagerGone
    \/ \E a \in ReqIds : ActorRecv(a)
    \/ \E a \in ReqIds : ActorExit(a)
    \/ \E k \in LaunchGrants : PoolBroker(k)
    \/ \E a \in ReqIds, outcome \in RunOutcomes : RunReturn(a, outcome)
    \/ \E a \in ReqIds : ActorFinish(a)

SpecSequential == Init /\ [][NextSequential]_vars

\* Every session actor and the pool broker are threads of their own, each
\* blocked only in recv on a channel or in handle.run: a thread that can take
\* a step takes it, and a Run returns (the worker answers, or the pipe to it
\* fails).
Fairness ==
    /\ \A a \in ReqIds :
           /\ WF_vars(ActorRecv(a))
           /\ WF_vars(ActorExit(a))
           /\ WF_vars(\E outcome \in RunOutcomes : RunReturn(a, outcome))
           /\ WF_vars(ActorFinish(a))
    /\ WF_vars(\E k \in LaunchGrants : PoolBroker(k))

\* The configurations of Configs with an ingress queue of one request: with
\* and without sandboxes launched in advance.
InitLive == InitWith({c \in Configs : c.ingress_capacity = 1})

SpecLive == InitLive /\ [][Next]_vars /\ Fairness

\* The runs of Spec in which every thread runs:
\* the manager, each session actor and the pool broker are sequential
\* threads, blocked only in recv on a channel or in handle.run, and each
\* takes the step it can take; a Run returns.  One session at a time, an
\* ingress queue of one request, no sandbox launched in advance.
SpecFair ==
    /\ InitWith({c \in Configs : c.ingress_capacity = 1 /\ c.sandbox_pool_size = 0})
    /\ [][Next]_vars
    /\ \A a \in ReqIds :
           WF_vars(\/ ActorRecv(a)
                   \/ ActorExit(a)
                   \/ \E outcome \in RunOutcomes : RunReturn(a, outcome)
                   \/ ActorFinish(a))
    /\ WF_vars(\E k \in LaunchGrants : PoolBroker(k))
    /\ WF_vars((\E spawn_ok \in BOOLEAN : ManagerRecv(spawn_ok)) \/ ManagerDrain)

(* SpecLru: the manager's bookkeeping over more requests and session ids:   *)
(* the runs of Spec without reset, without a manager exit, with every       *)
(* thread spawn and every worker Run succeeding, and with a launcher that   *)
(* fails only once MaxHandles handles are launched.                         *)

InitLru ==
    InitWith({[max_sessions |-> n, ingress_capacity |-> 1, sandbox_pool_size |-> 0] :
                 n \in 1..LruMaxSessions})

NextLru ==
    \/ /\ Len(reqs) < LruRequests
       /\ \E s \in NextSessionIds(LruSessions) : TryDispatch(s, FALSE)
    \/ ManagerRecv(TRUE)
    \/ ManagerDrain
    \/ \E a \in ReqIds : ActorRecv(a)
    \/ \E a \in ReqIds : ActorExit(a)
    \/ PoolBroker(MaxPoolCfg + 1)
    \/ \E a \in ReqIds : RunReturn(a, "run_result")
    \/ \E a \in ReqIds : ActorFinish(a)

SpecLru == InitLru /\ [][NextLru]_vars

(* SpecPool: one SandboxPool, the SandboxClients its launcher makes and    *)
(* their child processes, under a caller that constructs the pool, acquires *)
(* and retires handles, drops handles and finally drops the pool.           *)

\* The clients once the handles from + 1 .. to are launched.
Launched(cl, from, to) ==
    [h \in Handles |-> IF from < h /\ h <= to THEN NewClient ELSE cl[h]]

\* The launcher's failed launch in a pool call is either a failed spawn (no
\* client) or a failed ping on a spawned child (handshake).
FailedLaunches(failed, handshake) ==
    IF failed /\ handshake THEN Append(failedClients, DropClient(NewClient)) ELSE failedClients

HandshakeAllowed(failed, handshake) ==
    handshake => (failed /\ Len(failedClients) < MaxFailedClients)

\* SandboxPool::new(launcher, n) with a launcher granting k launches; on Err
\* the half-filled pool is dropped, and its idle handles with it.
PoolConstruct(n, k, handshake) ==
    /\ phase = "unbuilt"
    /\ LET r == SandboxPoolNew(n, k)
           made == Launched(clients, 0, r.pool.launched)
       IN  /\ HandshakeAllowed(~r.ok, handshake)
           /\ phase' = IF r.ok THEN "ready" ELSE "failed"
           /\ pool' = IF r.ok THEN r.pool ELSE [r.pool EXCEPT !.idle = <<>>]
           /\ clients' = IF r.ok THEN made
                         ELSE [h \in Handles |->
                                  IF h \in Range(r.pool.idle) THEN DropClient(made[h]) ELSE made[h]]
           /\ failedClients' = FailedLaunches(~r.ok, handshake)
           /\ lastOp' = [op |-> "new", k |-> k, target |-> n, before |-> EmptyPool(n),
                         handle |-> None, ok |-> r.ok]
    /\ UNCHANGED <<held, terminated, sessionVars, workerVars, agentVars>>

\* pool.acquire() with a launcher granting k launches.
PoolAcquireCall(k, handshake) ==
    /\ phase = "ready"
    /\ LET res == PoolAcquire(pool, k)
           failed == res.handle = None \/ Len(res.pool.idle) < pool.target_idle
       IN  /\ HandshakeAllowed(failed, handshake)
           /\ pool' = res.pool
           /\ clients' = Launched(clients, pool.launched, res.pool.launched)
           /\ failedClients' = FailedLaunches(failed, handshake)
           /\ held' = IF res.handle = None THEN held ELSE held \cup {res.handle}
           /\ lastOp' = [op |-> "acquire", k |-> k, target |-> pool.target_idle, before |-> pool,
                         handle |-> res.handle, ok |-> res.handle # None]
    /\ UNCHANGED <<phase, terminated, sessionVars, workerVars, agentVars>>

\* pool.retire(h) with a launcher granting k launches.
PoolRetireCall(h, k, handshake) ==
    /\ phase = "ready"
    /\ h \in held
    /\ LET after == PoolRetire(pool, k)
           failed == Len(after.idle) < pool.target_idle
       IN  /\ HandshakeAllowed(failed, handshake)
           /\ pool' = after
           /\ clients' = [Launched(clients, pool.launched, after.launched) EXCEPT
                             ![h] = DropClient(Terminate(clients[h]))]
           /\ failedClients' = FailedLaunches(failed, handshake)
           /\ lastOp' = [op |-> "retire", k |-> k, target |-> pool.target_idle, before |-> pool,
                         handle |-> h, ok |-> TRUE]
    /\ held' = held \ {h}
    /\ terminated' = terminated \cup {h}
    /\ UNCHANGED <<phase, sessionVars, workerVars, agentVars>>

\* The caller drops a handle it holds without handing it to retire.
DropHeld(h) ==
    /\ h \in held
    /\ clients' = [clients EXCEPT ![h] = DropClient(@)]
    /\ held' = held \ {h}
    /\ UNCHANGED <<phase, pool, terminated, failedClients, lastOp, sessionVars, workerVars, agentVars>>

\* The pool is dropped, and its idle handles with it.
DropPool ==
    /\ phase = "ready"
    /\ phase' = "dropped"
    /\ pool' = [pool EXCEPT !.idle = <<>>]
    /\ clients' = [h \in Handles |->
                      IF h \in Range(pool.idle) THEN DropClient(clients[h]) ELSE clients[h]]
    /\ UNCHANGED <<held, terminated, failedClients, lastOp, sessionVars, workerVars, agentVars>>

\* The worker process of a handle exits by itself.
ChildExits(h) ==
    /\ clients[h].proc = "alive"
    /\ clients' = [clients EXCEPT ![h].proc = "exited"]
    /\ UNCHANGED <<phase, pool, held, terminated, failedClients, lastOp, sessionVars, workerVars, agentVars>>

\* The launches a launcher grants to one pool call before it fails.
PoolGrants == 0..(MaxPoolTarget + 1)

InitPool ==
    /\ InitSessions({[max_sessions |-> 1, ingress_capacity |-> 1, sandbox_pool_size |-> 0]})
    /\ pool = EmptyPool(0)
    /\ terminated = {}
    /\ phase = "unbuilt"
    /\ clients = [h \in Handles |-> NoClient]
    /\ failedClients = <<>>
    /\ held = {}
    /\ lastOp = NoOp
    /\ InitNoWorker
    /\ InitNoAgent

NextPool ==
    \/ \E n \in 0..MaxPoolTarget, k \in PoolGrants, handshake \in BOOLEAN :
           PoolConstruct(n, k, handshake)
    \/ \E k \in PoolGrants, handshake \in BOOLEAN : PoolAcquireCall(k, handshake)
    \/ \E h \in Handles, k \in PoolGrants, handshake \in BOOLEAN : PoolRetireCall(h, k, handshake)
    \/ \E h \in Handles : DropHeld(h)
    \/ DropPool
    \/ \E h \in Handles : ChildExits(h)

SpecPool == InitPool /\ [][NextPool]_vars

(* One sandbox_worker process, followed line by line. *)

\* The lines a supervisor can write to the worker's stdin: blank lines, lines
\* that cannot be read or are no request, and the three requests; a run
\* request comes with the step of it that fails, if that step is reached.
Lines ==
    {[kind |-> kind, initialize |-> FALSE, code |-> FALSE, context |-> "absent", fail |-> "none"] :
        kind \in {"blank", "unreadable", "invalid", "ping", "shutdown"}}
    \cup [kind : {"run"}, initialize : BOOLEAN, code : BOOLEAN, context : {"absent", "a"},
          fail : {"none", "setup", "execute", "completion"}]

\* One turn of the worker's loop: it reads the next line and serves it.
WorkerReadLine(line) ==
    /\ wPc = "serving"
    /\ Len(wRead) < MaxLines
    /\ LET n == Len(wRead) + 1
           x == ServeLine(line, n, repl, stdoutOpen, line.fail)
       IN  /\ wRead' = Append(wRead, line)
           /\ wOut' = wOut \o x.out
           /\ wPc' = x.pc
           /\ repl' = x.repl
    /\ UNCHANGED <<stdoutOpen, sessionVars, poolVars, clientVars, agentVars>>

\* The worker's stdin ends: the loop is left and main returns.
StdinEof ==
    /\ wPc = "serving"
    /\ wPc' = "eof"
    /\ UNCHANGED <<wRead, wOut, stdoutOpen, repl, sessionVars, poolVars, clientVars, agentVars>>

\* The reader of the worker's stdout goes away: writes fail from now on.
StdoutCloses ==
    /\ wPc = "serving"
    /\ stdoutOpen
    /\ stdoutOpen' = FALSE
    /\ UNCHANGED <<wPc, wRead, wOut, repl, sessionVars, poolVars, clientVars, agentVars>>

InitWorker ==
    /\ InitSessions({[max_sessions |-> 1, ingress_capacity |-> 1, sandbox_pool_size |-> 0]})
    /\ pool = EmptyPool(0)
    /\ terminated = {}
    /\ phase = "none"
    /\ clients = [h \in Handles |-> NoClient]
    /\ failedClients = <<>>
    /\ held = {}
    /\ lastOp = NoOp
    /\ wPc = "serving"
    /\ wRead = <<>>
    /\ wOut = <<>>
    /\ stdoutOpen = TRUE
    /\ repl = NoRepl
    /\ InitNoAgent

NextWorker ==
    \/ \E line \in Lines : WorkerReadLine(line)
    \/ StdinEof
    \/ StdoutCloses

SpecWorker == InitWorker /\ [][NextWorker]_vars

(* The search of one response for a final answer. *)

\* No manager, pool or worker takes part.
InitNoSystem ==
    /\ InitSessions({[max_sessions |-> 1, ingress_capacity |-> 1, sandbox_pool_size |-> 0]})
    /\ pool = EmptyPool(0)
    /\ terminated = {}
    /\ phase = "none"
    /\ clients = [h \in Handles |-> NoClient]
    /\ failedClients = <<>>
    /\ held = {}
    /\ lastOp = NoOp
    /\ InitNoWorker

\* The responses of at most MaxTextLen tokens. A response is a sequence of
\* tokens: the two marker openings, the closing parenthesis, newline, space,
\* a double quote, and one other character.
Texts ==
    UNION {[1..n -> {"FINAL(", "FINAL_VAR(", ")", "nl", "sp", "quote", "a"}] : n \in 0..MaxTextLen}

\* run_completion_loop after the code blocks of the response have run:
\* a final answer ends the turn, none leads to the next iteration.
CheckFinal ==
    /\ fPc = "input"
    /\ fAnswer' = check_for_final_answer(fText, fLocals)
    /\ fPc' = IF fAnswer'.some THEN "return" ELSE "next_iteration"
    /\ UNCHANGED <<fText, fLocals, loopVars, httpVars, replVars, sessionVars, poolVars, clientVars, workerVars>>

InitFinal ==
    /\ InitNoSystem
    /\ InitNoLoop
    /\ InitNoHttp
    /\ InitNoRepl
    /\ fText \in Texts
    /\ fLocals \in {{}, {<<"a">>}}
    /\ fPc = "input"
    /\ fAnswer = NoAnswer

NextFinal == CheckFinal

SpecFinal == InitFinal /\ [][NextFinal]_vars

(* One RlmRepl, followed through its turns. *)

\* The responses of the model: up to MaxBlocks repl code blocks, and a text
\* with no final marker, with FINAL(a) or with FINAL_VAR(a).
\* A repl code block is what it does when it runs.
Responses ==
    [blocks : UNION {[1..n -> {"prints", "binds_a", "raises", "blocked_import",
                               "outside_jail", "host_fails"}] : n \in 0..MaxBlocks},
     text : {<<>>, <<"FINAL(", "a", ")">>, <<"FINAL_VAR(", "a", ")">>}]

\* RlmRepl::completion (initialize) or completion_with_existing: the history
\* is reset to the system prompt, the interpreter is rebuilt on initialize,
\* and run_completion_loop runs up to its first model call.
StartTurn(initialize, setup_ok) ==
    /\ lPc = "idle"
    /\ lTurn < MaxTurns
    /\ lTurn' = lTurn + 1
    /\ lIter' = 0
    /\ lResps' = <<>>
    /\ lExec' = <<>>
    /\ IF ~initialize /\ ~repl_env
       THEN /\ lResult' = TurnError
            /\ lCalls' = <<>>
            /\ UNCHANGED <<messages, lPc, lLocals, repl_env>>
       ELSE IF initialize /\ ~setup_ok
       THEN /\ messages' = reset_messages_to_system_prompt(messages)
            /\ repl_env' = TRUE
            /\ lResult' = TurnError
            /\ lCalls' = <<>>
            /\ UNCHANGED <<lPc, lLocals>>
       ELSE LET e == EnterIteration(reset_messages_to_system_prompt(messages),
                                    lTurn + 1, 0, max_iterations)
            IN  /\ messages' = e.messages
                /\ lPc' = e.pc
                /\ lCalls' = <<e.messages>>
                /\ lLocals' = IF initialize THEN {} ELSE lLocals
                /\ repl_env' = TRUE
                /\ lResult' = NoTurnResult
    /\ UNCHANGED <<max_iterations, finalVars, httpVars, replVars, sessionVars, poolVars, clientVars, workerVars>>

\* The model call of an iteration returns a response: the rest of the
\* iteration runs, and the loop returns the final answer or goes on to its
\* next model call.
ModelReturns(resp) ==
    /\ lPc = "call"
    /\ LET r == AfterResponse(messages, lLocals, lExec, resp, lTurn, lIter) IN
       /\ lLocals' = r.locals
       /\ lExec' = r.exec
       /\ lResps' = Append(lResps, resp)
       /\ IF r.answer.some
          THEN /\ messages' = r.messages
               /\ lPc' = "idle"
               /\ lResult' = TurnResult("answer", r.answer.value, FALSE, NoResponse)
               /\ UNCHANGED <<lIter, lCalls>>
          ELSE LET e == EnterIteration(r.messages, lTurn, lIter + 1, max_iterations) IN
               /\ messages' = e.messages
               /\ lPc' = e.pc
               /\ lIter' = lIter + 1
               /\ lCalls' = Append(lCalls, e.messages)
               /\ UNCHANGED lResult
    /\ UNCHANGED <<max_iterations, lTurn, repl_env, finalVars, httpVars, replVars, sessionVars, poolVars,
                   clientVars, workerVars>>

\* The model call after the last iteration returns: its text is the answer.
FinalReturns(resp) ==
    /\ lPc = "final_call"
    /\ lResult' = TurnResult("answer", resp.text, TRUE, resp)
    /\ lPc' = "idle"
    /\ UNCHANGED <<max_iterations, messages, lTurn, lIter, lLocals, lCalls, lResps, lExec, repl_env,
                   finalVars, httpVars, replVars, sessionVars, poolVars, clientVars, workerVars>>

\* A model call fails: run_completion_loop returns the error at once.
ModelFails ==
    /\ lPc \in {"call", "final_call"}
    /\ lResult' = TurnError
    /\ lPc' = "idle"
    /\ UNCHANGED <<max_iterations, messages, lTurn, lIter, lLocals, lCalls, lResps, lExec,
                   repl_env, finalVars, httpVars, replVars, sessionVars, poolVars, clientVars, workerVars>>

InitLoop ==
    /\ InitNoSystem
    /\ InitNoHttp
    /\ InitNoRepl
    /\ InitNoFinal
    /\ max_iterations \in 0..MaxIterations
    /\ messages = <<>>
    /\ lPc = "idle"
    /\ lTurn = 0
    /\ lIter = 0
    /\ lLocals = {}
    /\ lCalls = <<>>
    /\ lResps = <<>>
    /\ lExec = <<>>
    /\ lResult = NoTurnResult
    /\ repl_env = FALSE

NextLoop ==
    \/ \E initialize, setup_ok \in BOOLEAN : StartTurn(initialize, setup_ok)
    \/ \E resp \in Responses : ModelReturns(resp)
    \/ \E resp \in {r \in Responses : Len(r.blocks) <= 1} : FinalReturns(resp)
    \/ ModelFails

SpecLoop == InitLoop /\ [][NextLoop]_vars

(* ----------------------------- properties ------------------------------ *)

\* The actor threads with a worker Run in flight on behalf of session s.
RunsInFlight(s) == {a \in ReqIds : threads[a].sid = s /\ threads[a].pc = "running"}

\* C1: for every session id, under every interleaving of arrivals,
\* completions, evictions and re-admissions, at most one worker Run issued
\* on its behalf is in flight.
C1_AtMostOneRunInFlight == \A s \in Sessions : Cardinality(RunsInFlight(s)) <= 1

\* C1 witness: a Run is in flight for a re-admitted session while the actor
\* of its evicted incarnation has not exited yet.
C1_Witness ==
    \E a, b \in ReqIds :
        /\ a # b
        /\ threads[a].sid = threads[b].sid
        /\ threads[a].pc = "running"
        /\ threads[b].pc = "recv" /\ ~threads[b].open

\* The accepted requests of the session of r that entered the ingress queue
\* before r.
EarlierOfSession(r) ==
    {q \in 1..(r - 1) : reqs[q].accepted /\ reqs[q].sid = reqs[r].sid}

\* A response was sent on the request's respond_to ("closed": respond_to was
\* dropped without one).
Responded(result) == result \notin {"none", "closed"}

\* C2: the responses to the requests of one session are produced in the
\* order in which the requests entered the ingress queue, whoever produces
\* them: when a response is sent, no earlier request of that session is
\* still waiting for its own.
C2_ResponsesInArrivalOrder ==
    [][\A r \in DOMAIN reqs :
          (reqs[r].accepted /\ ~Responded(reqs[r].result) /\ Responded(reqs'[r].result))
              => \A q \in EarlierOfSession(r) : reqs'[q].result # "none"]_vars

\* C2 witness: a session has an answer from its actor followed by an answer
\* of the manager itself.
C2_Witness ==
    \E r \in DOMAIN reqs :
        /\ reqs[r].accepted /\ reqs[r].result = "overloaded"
        /\ \E q \in EarlierOfSession(r) : reqs[q].result = "ok"

\* C3 as stated: after the manager has handled a request the number of live
\* sessions is at most max_sessions.
C3_Original == mgrPc = "recv" => Cardinality(Live(M)) <= config.max_sessions

\* C3 as amended: the number of live sessions is at most max(max_sessions, 1).
C3_LiveSessionsWithinCap == Cardinality(Live(M)) <= Max(config.max_sessions, 1)

\* C3 witness: the manager is at the cap after an eviction made room.
C3_Witness ==
    /\ managerAlive
    /\ mgrPc = "recv"
    /\ Cardinality(Live(M)) = Max(config.max_sessions, 1)
    /\ \E a \in ReqIds : threads[a].pc # "none" /\ ~threads[a].open

\* The requests dispatched to actor a of session s that the manager has
\* taken from the ingress queue.
DispatchedTo(a, s) ==
    {r \in DOMAIN reqs : r >= a /\ reqs[r].sid = s /\ reqs[r].accepted /\ r \notin Range(ingress)}

\* C4: a session is evicted only when its actor has completed every request
\* dispatched to it: nothing queued at the actor, nothing executing.
C4_EvictOnlyIdle ==
    [][\A s \in Sessions :
          (managerAlive' /\ actors[s].aid # None /\ actors'[s].aid # actors[s].aid)
              => /\ threads[actors[s].aid].pc = "recv"
                 /\ threads[actors[s].aid].mailbox = <<>>
                 /\ \A r \in DispatchedTo(actors[s].aid, s) : reqs[r].result # "none"]_vars

\* C4 witness: an evicted actor that has served a request.
C4_Witness ==
    /\ managerAlive
    /\ \E a \in ReqIds :
           /\ threads[a].pc = "recv" /\ ~threads[a].open
           /\ reqs[a].result = "ok"

\* The manager takes the head of the ingress queue in this step.
ManagerHandles == managerAlive' /\ ingress # <<>> /\ ingress' = Tail(ingress)

\* The manager's maps once the finished tokens are drained at the start of
\* the iteration.
Drained == drain_finished_events(M, finished, DrainBatchBefore).m

\* The live sessions with pending == 0.
IdleSessions(m) == {s \in Live(m) : m.actors[s].pending = 0}

\* The position in idle_lru at which the most recent finish of s was recorded.
LastPos(q, s) == CHOOSE i \in 1..Len(q) : q[i] = s /\ \A j \in (i + 1)..Len(q) : q[j] # s

\* The idle session whose most recent turn was recorded as finished earliest.
OldestIdle(m) ==
    CHOOSE s \in IdleSessions(m) :
        \A t \in IdleSessions(m) : LastPos(m.idle_lru, s) <= LastPos(m.idle_lru, t)

\* C5: when a new session is admitted at the cap, the session evicted is the
\* oldest idle one: among the live sessions with pending == 0, the one whose
\* most recent turn was recorded as finished earliest.
C5_EvictsOldestIdle ==
    [][\A s \in Sessions :
          (ManagerHandles /\ actors[s].aid # None /\ actors'[s].aid = None)
              => s = OldestIdle(Drained)]_vars

\* C6 as stated: a request for a session without a live actor, arriving when
\* the number of live actors is at least max_sessions, is answered Overloaded
\* exactly when no live session has pending == 0 after the drain; then no
\* actor is created and no live session is removed.
C6_Original ==
    [][(/\ ManagerHandles
        /\ Drained.actors[reqs[Head(ingress)].sid].aid = None
        /\ Cardinality(Live(Drained)) >= config.max_sessions)
          => /\ reqs'[Head(ingress)].result = "overloaded" <=> IdleSessions(Drained) = {}
             /\ reqs'[Head(ingress)].result = "overloaded"
                    => /\ [s \in Sessions |-> actors'[s].aid] = [s \in Sessions |-> actors[s].aid]
                       /\ threads' = threads]_vars

\* C6 as amended: the same with the cap max(max_sessions, 1).
C6_OverloadedIffNoIdle ==
    [][(/\ ManagerHandles
        /\ Drained.actors[reqs[Head(ingress)].sid].aid = None
        /\ Cardinality(Live(Drained)) >= Max(config.max_sessions, 1))
          => /\ reqs'[Head(ingress)].result = "overloaded" <=> IdleSessions(Drained) = {}
             /\ reqs'[Head(ingress)].result = "overloaded"
                    => /\ [s \in Sessions |-> actors'[s].aid] = [s \in Sessions |-> actors[s].aid]
                       /\ threads' = threads]_vars

\* C6 witness: the manager answered Overloaded at the cap, and the busy
\* session that filled it is still live.
C6_Witness ==
    \E r \in DOMAIN reqs :
        /\ reqs[r].accepted /\ reqs[r].result = "overloaded"
        /\ actors[reqs[r].sid].aid = None
        /\ Cardinality(Live(M)) = Max(config.max_sessions, 1)

\* C7 as stated: try_dispatch returns at once; with ingress_capacity requests
\* queued it returns Overloaded and enqueues nothing, with the manager gone it
\* returns Internal, otherwise it enqueues; the queue never holds more than
\* ingress_capacity requests.
C7_Original ==
    [][Len(reqs') = Len(reqs) + 1
          => /\ reqs'[Len(reqs')].result =
                    IF ~managerAlive THEN "internal"
                    ELSE IF Len(ingress) >= config.ingress_capacity THEN "overloaded"
                    ELSE "none"
             /\ ingress' = IF reqs'[Len(reqs')].result = "none"
                           THEN Append(ingress, Len(reqs')) ELSE ingress
             /\ Len(ingress') <= config.ingress_capacity]_vars

\* C7 as amended: the same with the channel's capacity max(ingress_capacity, 1).
C7_TryDispatchNeverBlocks ==
    [][Len(reqs') = Len(reqs) + 1
          => /\ reqs'[Len(reqs')].result =
                    IF ~managerAlive THEN "internal"
                    ELSE IF Len(ingress) >= IngressChannelCapacity(config) THEN "overloaded"
                    ELSE "none"
             /\ ingress' = IF reqs'[Len(reqs')].result = "none"
                           THEN Append(ingress, Len(reqs')) ELSE ingress
             /\ Len(ingress') <= IngressChannelCapacity(config)]_vars

\* C7 witness: one request was enqueued, one refused on the full queue, one
\* refused because the manager was gone.
C7_Witness ==
    \E a, b, c \in DOMAIN reqs :
        /\ reqs[a].accepted
        /\ ~reqs[b].accepted /\ reqs[b].result = "overloaded"
        /\ ~reqs[c].accepted /\ reqs[c].result = "internal"

\* Command c is queued at the pool broker ahead of command d.
QueuedBefore(c, d) ==
    \E i, j \in DOMAIN poolQueue : i < j /\ poolQueue[i] = c /\ poolQueue[j] = d

\* Actor a is in a reset=true request that found the session owning a handle.
ResetOfOwned(a) ==
    /\ threads[a].cur # None
    /\ reqs[threads[a].cur].reset
    /\ threads[a].dropped # None

\* C8: in a request with reset=true on a session that owns handle h, the
\* retire of h is issued to the pool before the acquire of the replacement,
\* and the request's Run goes to a handle other than h with initialize=true.
C8_ResetRetiresBeforeAcquire ==
    \A a \in ReqIds :
        ResetOfOwned(a) =>
            /\ threads[a].pc \in {"acquire", "running", "finish"}
            /\ threads[a].pc = "acquire" =>
                   \/ QueuedBefore(RetireCmd(threads[a].dropped), AcquireCmd(a))
                   \/ /\ threads[a].dropped \in terminated
                      /\ AcquireCmd(a) \in Range(poolQueue)
            /\ threads[a].pc = "running" =>
                   /\ threads[a].dropped \in terminated
                   /\ threads[a].handle \notin {None, threads[a].dropped}
                   /\ threads[a].run_init

\* C8 witness: the Run of such a request is in flight.
C8_Witness == \E a \in ReqIds : ResetOfOwned(a) /\ threads[a].pc = "running"

\* handle.run returns an error to actor a in this step: the worker did not
\* serve the Run.
RunFails(a) == threads[a].pc = "running" /\ threads'[a].pc # "running" /\ interp' = interp

\* C9: when a worker Run fails, the actor retires the handle before it takes
\* any further request, the request is answered Internal and the session
\* stays registered; the next request of the session acquires a new handle
\* and runs with initialize=true.
C9_RunFailureRetiresHandle ==
    [][\A a \in ReqIds :
          /\ RunFails(a) =>
                 /\ poolQueue' = Append(poolQueue, RetireCmd(threads[a].handle))
                 /\ threads'[a].pc = "finish"
                 /\ threads'[a].handle = None
                 /\ reqs'[threads[a].cur].result = "internal"
                 /\ actors' = actors
                 /\ managerAlive => actors[threads[a].sid].aid = a
          /\ (threads[a].pc = "recv" /\ threads'[a].cur # None /\ threads[a].handle = None) =>
                 /\ threads'[a].pc = "acquire"
                 /\ poolQueue' = Append(poolQueue, AcquireCmd(a))
          /\ (threads[a].pc = "acquire" /\ threads'[a].pc = "running") =>
                 /\ threads'[a].run_init
                 /\ threads'[a].handle \notin terminated' \cup threads[a].owned \cup {None}
                 /\ RetireCmd(threads'[a].handle) \notin Range(poolQueue')]_vars

\* C9 witness: after a failed Run, a later request of the session without
\* reset was served by the same actor.
C9_Witness ==
    \E a \in ReqIds :
        /\ threads[a].pc = "finish"
        /\ ~reqs[threads[a].cur].reset
        /\ reqs[threads[a].cur].result = "ok"
        /\ \E r \in EarlierOfSession(threads[a].cur) : r >= a /\ reqs[r].result = "internal"

\* Actor a has just served a reset=true request successfully.
ResetDone(a) ==
    /\ threads[a].pc = "finish"
    /\ reqs[threads[a].cur].reset
    /\ reqs[threads[a].cur].result = "ok"

\* C10: a successful reset=true request leaves the session in a state that
\* does not depend on what preceded it, another reset included: the session
\* owns exactly one handle, marked initialized; every handle it owned before
\* is retired; the interpreter holds only what the last request created.
C10_ResetIdempotent ==
    \A a \in ReqIds :
        ResetDone(a) =>
            /\ threads[a].handle # None
            /\ threads[a].handle \notin terminated
            /\ threads[a].initialized
            /\ (threads[a].owned \ {threads[a].handle}) \subseteq terminated
            /\ interp[threads[a].handle] = [has_env |-> TRUE, mem |-> {threads[a].cur}]

\* C10 witness: the second of two consecutive successful reset=true requests
\* of a session has been served.
C10_Witness ==
    \E a \in ReqIds :
        /\ ResetDone(a)
        /\ \E r \in EarlierOfSession(threads[a].cur) :
               /\ r >= a /\ reqs[r].reset /\ reqs[r].result = "ok"
               /\ \A q \in EarlierOfSession(threads[a].cur) : q <= r

\* Every SandboxClient made so far.
AllClients ==
    {clients[h] : h \in {g \in Handles : clients[g].made}} \cup Range(failedClients)

\* C11: terminate runs on every sandbox handle before the handle is dropped
\* and at most one of its invocations ends the worker, whichever way the
\* handle leaves use: retire, drop of an idle or of a held handle, failed
\* launch handshake.
C11_TerminateOnceBeforeDrop ==
    /\ \A c \in AllClients :
           /\ c.ended <= 1
           /\ c.dropped => (c.terms >= 1 /\ c.ended = 1 /\ c.proc = "reaped")
    /\ \A h \in Handles :
           (clients[h].made /\ h \notin Range(pool.idle) \cup held) => clients[h].dropped

\* C11 witness: a handle went through retire, another was dropped by its
\* holder or with the pool, and a launch failed in its handshake.
C11_Witness ==
    /\ failedClients # <<>>
    /\ \E h, g \in Handles :
           /\ clients[h].dropped /\ clients[h].terms = 2
           /\ clients[g].dropped /\ clients[g].terms = 1

\* C14: SandboxPool::new(launcher, n) returns a pool with exactly n idle
\* handles, or fails when a launch fails; never a pool with fewer than n.
C14_NewIsStrict ==
    lastOp.op = "new" =>
        /\ lastOp.ok <=> lastOp.k >= lastOp.target
        /\ lastOp.ok =>
               /\ phase \in {"ready", "dropped"}
               /\ phase = "ready" =>
                      /\ pool.target_idle = lastOp.target
                      /\ Len(pool.idle) = lastOp.target
                      /\ \A i \in DOMAIN pool.idle : clients[pool.idle[i]].made
        /\ ~lastOp.ok => phase = "failed" /\ pool.idle = <<>>

\* C14 witness: construction failed after some launches had succeeded.
C14_Witness ==
    lastOp.op = "new" /\ ~lastOp.ok /\ lastOp.k > 0 /\ phase = "failed"

\* C15: acquire returns the front of the idle queue when there is one, else a
\* newly launched handle; a launch failure in the refill never makes a
\* successful acquire fail; a launch failure on an empty idle queue makes
\* acquire fail and leaves the queue empty.
C15_AcquireFrontOrLaunch ==
    (lastOp.op = "acquire" /\ phase = "ready") =>
        /\ lastOp.before.idle # <<>> => lastOp.handle = Head(lastOp.before.idle)
        /\ (lastOp.before.idle = <<>> /\ CanLaunch(lastOp.before, lastOp.k)) =>
               /\ lastOp.handle = lastOp.before.launched + 1
               /\ clients[lastOp.handle].made
        /\ (lastOp.before.idle = <<>> /\ ~CanLaunch(lastOp.before, lastOp.k)) =>
               /\ lastOp.handle = None
               /\ pool.idle = <<>>
        /\ lastOp.handle # None => lastOp.handle \notin Range(pool.idle)

\* C15 witness: an acquire succeeded although its refill fell short.
C15_Witness ==
    /\ lastOp.op = "acquire" /\ phase = "ready"
    /\ lastOp.handle # None
    /\ Len(pool.idle) < pool.target_idle

\* The launches the last acquire or retire needs to bring the idle queue to
\* target_idle (an acquire on an empty queue launches the handle it returns).
LaunchesNeeded ==
    IF lastOp.op = "acquire"
    THEN IF lastOp.before.idle = <<>>
         THEN 1 + lastOp.target
         ELSE Max(lastOp.target - (Len(lastOp.before.idle) - 1), 0)
    ELSE Max(lastOp.target - Len(lastOp.before.idle), 0)

\* Every launch of the last call succeeded.
EveryLaunchSucceeded ==
    /\ lastOp.k >= LaunchesNeeded
    /\ lastOp.before.launched + LaunchesNeeded <= MaxHandles

\* C17: idle_len() is at most target_idle in every pool state, and equals
\* target_idle after an acquire or retire in which every launch succeeded.
C17_IdleWithinTarget ==
    /\ Len(pool.idle) <= pool.target_idle
    /\ (phase = "ready" /\ lastOp.op \in {"acquire", "retire"} /\ EveryLaunchSucceeded)
           => Len(pool.idle) = pool.target_idle

\* C17 witness: a retire whose launches all succeeded refilled a queue that
\* an earlier failed launch had left short.
C17_Witness ==
    /\ phase = "ready" /\ lastOp.op = "retire" /\ EveryLaunchSucceeded
    /\ LaunchesNeeded >= 1


\* The positions in the worker's output of the responses to line n.
ResponsesFor(n) == {i \in 1..Len(wOut) : wOut[i].for = n}

\* The responses that answer a line of each kind.
ExpectedKinds(line) ==
    CASE line.kind = "ping" -> {"pong"}
      [] line.kind = "shutdown" -> {"ack"}
      [] line.kind = "run" -> {"run_result", "error"}
      [] line.kind \in {"invalid", "unreadable"} -> {"error"}
      [] OTHER -> {}

\* C18: the worker emits exactly one response for each non-blank line it has
\* read and none for a blank one, in the order of the lines: pong for ping,
\* ack for shutdown, run_result or error for run, error for a line that is no
\* request; every response is written as long as stdout takes writes; after a
\* line that is no request or is blank the worker is still serving (or its
\* stdin has ended), and a shutdown line is the last line it ever reads.
C18_OneResponsePerLine ==
    /\ \A n \in 1..Len(wRead) :
           Cardinality(ResponsesFor(n)) = IF wRead[n].kind = "blank" THEN 0 ELSE 1
    /\ \A i \in 1..Len(wOut) :
           /\ wOut[i].for \in 1..Len(wRead)
           /\ wOut[i].kind \in ExpectedKinds(wRead[wOut[i].for])
           /\ \A j \in 1..Len(wOut) : i < j => wOut[i].for < wOut[j].for
           /\ stdoutOpen => wOut[i].written
    /\ \A n \in 1..Len(wRead) :
           /\ wRead[n].kind = "shutdown" => n = Len(wRead) /\ wPc \in {"done", "failed"}
           /\ n = Len(wRead) /\ wRead[n].kind \in {"invalid", "unreadable", "blank"}
                  => wPc \in {"serving", "eof"}

\* An invalid line, a blank line and a shutdown were read: two responses, the
\* second one the ack, and the worker has left its loop.
C18_Witness ==
    /\ Len(wRead) = 3
    /\ wRead[1].kind = "invalid"
    /\ wRead[2].kind = "blank"
    /\ wRead[3].kind = "shutdown"
    /\ Len(wOut) = 2
    /\ wOut[2].kind = "ack"
    /\ wOut[2].written
    /\ wPc = "done"

\* The step of a run request that the request's fate makes fail is one the
\* request reaches.
StepFails(line) ==
    \/ line.fail = "setup" /\ line.initialize
    \/ line.fail = "execute" /\ line.code
    \/ line.fail = "completion" /\ ~line.code

\* C19: the answer to a run request, whatever its initialize, is a run_result
\* with stdout and stderr and no response when the request has code, with a
\* response and neither stdout nor stderr when it has none, and it is an
\* error, never a run_result, when a step of the run failed.
C19_ResultShapeFollowsCode ==
    \A i \in 1..Len(wOut) :
        LET line == wRead[wOut[i].for]
            result == wOut[i].result
        IN  line.kind = "run" =>
                /\ wOut[i].kind = "run_result" =>
                       /\ result.response <=> ~line.code
                       /\ result.stdout <=> line.code
                       /\ result.stderr <=> line.code
                       /\ ~StepFails(line)
                /\ wOut[i].kind = "error" => result = NoResult
                /\ StepFails(line) => wOut[i].kind = "error"

\* An initializing completion, then a run of code on the same interpreter,
\* then a run whose step fails: a response, then stdout and stderr, then an
\* error.
C19_Witness ==
    /\ Len(wRead) = 3
    /\ Len(wOut) = 3
    /\ wRead[1].kind = "run" /\ wRead[1].initialize /\ ~wRead[1].code
    /\ wOut[1].kind = "run_result" /\ wOut[1].result = CompletionResult
    /\ wRead[2].kind = "run" /\ ~wRead[2].initialize /\ wRead[2].code
    /\ wOut[2].kind = "run_result" /\ wOut[2].result = CodeResult
    /\ wRead[3].kind = "run" /\ StepFails(wRead[3])
    /\ wOut[3].kind = "error"

\* The line the worker reads in this step, if it reads one.
ReadsLine(line) == wRead' = Append(wRead, line)

\* C20: a run with initialize=false keeps the interpreter, the context global
\* loaded into it and every binding earlier runs made, whatever context the
\* request carries; the interpreter is replaced only by a run with
\* initialize=true, and the new one holds the request's context and at most
\* the bindings of that run.
C20_OnlyInitializeReplaces ==
    [][\A line \in Lines : ReadsLine(line) =>
           /\ line.kind = "run" /\ ~line.initialize =>
                  /\ repl'.env = repl.env
                  /\ repl'.context = repl.context
                  /\ repl.bindings \subseteq repl'.bindings
           /\ line.kind # "run" => repl' = repl
           /\ repl'.env # repl.env =>
                  /\ line.kind = "run" /\ line.initialize
                  /\ repl'.context = LoadedContext(line.context)
                  /\ repl'.bindings \subseteq {Len(wRead')}]_vars

\* An initializing run of code without a context, then a run of code with
\* initialize=false that carries a context: the second run was answered, the
\* interpreter is the first one, with the bindings of both runs and the empty
\* context of the first.
C20_Witness ==
    /\ Len(wRead) = 2
    /\ wRead[1].kind = "run" /\ wRead[1].initialize /\ wRead[1].context = "absent"
    /\ wRead[2].kind = "run" /\ ~wRead[2].initialize /\ wRead[2].context = "a"
    /\ wOut[2].kind = "run_result"
    /\ repl.env = 1
    /\ repl.bindings = {1, 2}
    /\ repl.context = "empty"

\* The handles that were launched and not terminated.
LiveHandles == (1..pool.launched) \ terminated

\* The places that hold handle h: positions of the pool's idle queue, session
\* actors, and Retire commands on their way to the pool broker.
IdleHolders(h) == {i \in 1..Len(pool.idle) : pool.idle[i] = h}

ActorHolders(h) == {a \in ReqIds : threads[a].handle = h}

TransitHolders(h) == {i \in 1..Len(poolQueue) : poolQueue[i] = RetireCmd(h)}

\* C13: every live handle is held by exactly one of the idle queue, a session
\* actor and a command in transit to the pool broker, and a handle that is
\* not live is held by none.
C13_OneHolderPerHandle ==
    \A h \in Handles :
        Cardinality(IdleHolders(h)) + Cardinality(ActorHolders(h))
            + Cardinality(TransitHolders(h))
        = IF h \in LiveHandles THEN 1 ELSE 0

\* Three live handles, one in each kind of place.
C13_Witness ==
    \E h1, h2, h3 \in LiveHandles :
        /\ IdleHolders(h1) # {}
        /\ ActorHolders(h2) # {}
        /\ TransitHolders(h3) # {}

\* The handles that some session actor has held.
EverOwned == UNION {threads[a].owned : a \in ReqIds}

\* The handles passed to retire: terminated, or on their way to the broker.
Retired == terminated \cup {poolQueue[i].handle : i \in {j \in 1..Len(poolQueue) : poolQueue[j].kind = "Retire"}}

\* C16: a retired handle is never in the idle queue; a handle that an actor
\* receives from acquire was never held by any actor before and is not
\* retired; and no handle has been held by the actors of two sessions or of
\* two lives of one session.
C16_WorkersSingleUse ==
    [][/\ Retired' \cap Range(pool'.idle) = {}
       /\ \A a \in ReqIds :
              threads'[a].handle # None /\ threads'[a].handle # threads[a].handle =>
                  /\ threads'[a].handle \notin EverOwned
                  /\ threads'[a].handle \notin Retired
       /\ \A a, b \in ReqIds :
              a # b => threads'[a].owned \cap threads'[b].owned = {}]_vars

\* A session was reset: its actor has held two handles, the first one is
\* terminated and the second one has served a Run.
C16_Witness ==
    \E a \in ReqIds :
        /\ Cardinality(threads[a].owned) = 2
        /\ threads[a].handle # None
        /\ threads[a].initialized
        /\ threads[a].owned \ {threads[a].handle} \subseteq terminated

\* The session of handle h is live: the actor that holds h is one the
\* manager still has a sender to.
OwnedByLiveSession(h) == \E a \in ReqIds : threads[a].handle = h /\ threads[a].open

\* C12: a live handle that is neither in the idle queue nor held by the actor
\* of a live session (its session was evicted, was reset, had a failed Run,
\* or the manager is gone) is eventually terminated.
C12_OrphanEventuallyTerminated ==
    \A h \in Handles :
        (h \in LiveHandles /\ IdleHolders(h) = {} /\ ~OwnedByLiveSession(h))
            ~> (h \in terminated)

\* A session was evicted while the manager lives on: its actor has left its
\* loop and the handle it held is terminated.
C12_Witness ==
    \E a \in ReqIds :
        /\ managerAlive
        /\ threads[a].pc = "exited"
        /\ threads[a].owned # {}
        /\ threads[a].owned \subseteq terminated

\* The response has a marker with this opening: the opening first on its
\* line, and a closing parenthesis somewhere after it.
HasMarker(text, marker) == Captures(text, marker).found

\* The variable the first FINAL_VAR marker of the response names.
NamedVariable(text) == VariableName(Captures(text, "FINAL_VAR(").content)

\* C23: when the response has a FINAL_VAR marker, then, whatever FINAL markers
\* it also has, the turn returns the value of the named variable if
\* __rlm_locals binds it, and otherwise the iteration gives no answer and the
\* loop goes on to its next iteration.
C23_FinalVarTakesPrecedence ==
    fPc # "input" /\ HasMarker(fText, "FINAL_VAR(") =>
        IF NamedVariable(fText) \in fLocals
        THEN fPc = "return" /\ fAnswer = [some |-> TRUE, value |-> ValueOf(NamedVariable(fText))]
        ELSE fPc = "next_iteration" /\ fAnswer = NoAnswer

\* A FINAL marker comes before a FINAL_VAR marker that names a bound
\* variable: the answer is the variable's value.
C23_Witness ==
    /\ fText = <<"FINAL(", ")", "nl", "FINAL_VAR(", "a", ")">>
    /\ fLocals = {<<"a">>}
    /\ fPc = "return"
    /\ fAnswer.value = ValueOf(<<"a">>)

\* The response is exactly FINAL(x), x without a closing parenthesis.
ExactlyFinal(text) ==
    /\ Len(text) >= 2
    /\ text[1] = "FINAL("
    /\ text[Len(text)] = ")"
    /\ \A i \in 2..(Len(text) - 1) : text[i] # ")"

\* The x of a response that is exactly FINAL(x).
FinalArgument(text) == SubSeq(text, 2, Len(text) - 1)

\* C24 as stated: a response that is exactly FINAL(x), x without a closing
\* parenthesis, ends the turn with x, trimmed, as its answer.
C24_Original ==
    fPc # "input" /\ ExactlyFinal(fText) =>
        fPc = "return" /\ fAnswer = [some |-> TRUE, value |-> Trim(FinalArgument(fText))]

\* C24, amended: a response that is exactly FINAL(x), where x has no closing
\* parenthesis and no line of x begins with FINAL_VAR( after optional
\* whitespace, ends the turn with x, trimmed, as its answer.
C24_FinalRoundTrip ==
    fPc # "input" /\ ExactlyFinal(fText)
        /\ (\A q \in 1..Len(fText) : ~MarkerAt(fText, "FINAL_VAR(", q)) =>
        fPc = "return" /\ fAnswer = [some |-> TRUE, value |-> Trim(FinalArgument(fText))]

\* FINAL( a ) with the a between spaces and on a line of its own: the turn
\* ends with a.
C24_Witness ==
    /\ fText = <<"FINAL(", "nl", "sp", "a", "sp", ")">>
    /\ fPc = "return"
    /\ fAnswer = [some |-> TRUE, value |-> <<"a">>]

\* A message without the output it shows.
Tag(m) == [role |-> m.role, kind |-> m.kind, turn |-> m.turn, iter |-> m.iter, block |-> m.block]

Tags(msgs) == [n \in 1..Len(msgs) |-> Tag(msgs[n])]

\* The messages an iteration of turn t appends for a response: one per code
\* block, or the response itself when it has none.
ExpectedAppend(t, i, resp) ==
    IF resp.blocks = <<>>
    THEN <<Tag(Msg("assistant", "you_responded", t, i, 0, "none"))>>
    ELSE [b \in 1..Len(resp.blocks) |-> Tag(Msg("user", "code_executed", t, i, b, "none"))]

\* The messages iterations 0..n-1 of turn t append, in order.
RECURSIVE ExpectedHistory(_, _, _)
ExpectedHistory(t, resps, n) ==
    IF n = 0 THEN <<>>
    ELSE ExpectedHistory(t, resps, n - 1) \o ExpectedAppend(t, n - 1, resps[n])

\* The prompt that ends the messages of the model call with index i.
ExpectedPrompt(t, i) ==
    IF i < max_iterations THEN next_action_prompt(t, i, FALSE)
    ELSE next_action_prompt(t, max_iterations, TRUE)

\* C21: the messages passed to the i-th model call of a turn are the system
\* prompt, then what iterations 0..i-1 of this turn appended, in order, then
\* the one prompt of iteration i: nothing of an earlier turn and no earlier
\* prompt.
C21_CallSeesThisTurnOnly ==
    \A c \in 1..Len(lCalls) :
        Tags(lCalls[c])
        = <<Tag(SystemMsg)>> \o ExpectedHistory(lTurn, lResps, c - 1)
              \o <<Tag(ExpectedPrompt(lTurn, c - 1))>>

\* The second call of a second turn, after a first turn that left messages
\* and after an iteration that ran two code blocks.
C21_Witness ==
    /\ lTurn = 2
    /\ Len(lCalls) = 2
    /\ Len(lCalls[2]) = 4
    /\ lCalls[2][2].kind = "code_executed"
    /\ lCalls[2][4].kind = "next_action"

\* C22: a turn makes at most max_iterations + 1 model calls; the call with
\* the final prompt is the one after max_iterations iterations without an
\* answer, and when it returns the turn returns the text of its response as
\* it is: no code block of it runs, nothing is appended, and its markers stay
\* in the text.
C22_AtMostOneFinalCall ==
    /\ Len(lCalls) <= max_iterations + 1
    /\ \A c \in 1..Len(lCalls) :
           lCalls[c][Len(lCalls[c])].kind = "final_prompt" <=> c = max_iterations + 1
    /\ lPc = "final_call" => Len(lCalls) = max_iterations + 1 /\ Len(lResps) = max_iterations
    /\ lResult.last =>
           /\ lPc = "idle"
           /\ Len(lCalls) = max_iterations + 1
           /\ Len(lResps) = max_iterations
           /\ lResult.kind = "answer"
           /\ lResult.value = lResult.resp.text
           /\ messages = lCalls[max_iterations + 1]
           /\ \A n \in 1..Len(lExec) : lExec[n].iter < max_iterations

\* Two iterations without an answer, then a last response with a code block
\* and FINAL(a): the turn returns FINAL(a) as it is, after three calls.
C22_Witness ==
    /\ max_iterations = 2
    /\ Len(lCalls) = 3
    /\ lResult.last
    /\ lResult.resp.blocks = <<"binds_a">>
    /\ lResult.value = <<"FINAL(", "a", ")">>
    /\ lLocals = {}

\* The messages of the history that are next-action prompts.
PromptsIn(msgs) == {n \in 1..Len(msgs) : msgs[n].kind \in {"next_action", "final_prompt"}}

\* C28 as stated: when a turn has ended, the history holds no next-action
\* prompt.
C28_NoPromptAfterTurn == lPc = "idle" => PromptsIn(messages) = {}

\* C28, amended: the prompt of an iteration is pushed before its model call
\* and popped when the call returns a response, so the history and the
\* messages of every call hold no prompt but the one at their end, and a turn
\* that an iteration ended leaves no prompt; the prompt of the call after the
\* last iteration and the prompt of a call that failed are not popped and
\* stay at the end of the history when the turn has ended.
C28_PromptPoppedAfterIteration ==
    /\ PromptsIn(messages) \subseteq {Len(messages)}
    /\ \A c \in 1..Len(lCalls) : PromptsIn(lCalls[c]) = {Len(lCalls[c])}
    /\ lPc = "idle" /\ lResult.kind = "answer" /\ ~lResult.last => PromptsIn(messages) = {}
    /\ lPc = "idle" /\ lCalls # <<>> /\ (lResult.last \/ lResult.kind = "error") =>
           PromptsIn(messages) = {Len(messages)}

\* A turn ended in its second iteration: the history holds what the two
\* iterations appended and no prompt.
C28_Witness ==
    /\ lPc = "idle"
    /\ lResult.kind = "answer"
    /\ ~lResult.last
    /\ Len(lResps) = 2
    /\ Len(lCalls) = 2
    /\ Len(messages) >= 3
    /\ PromptsIn(messages) = {}

\* The history without the prompt at its end, if there is one.
IterationHistory ==
    IF messages # <<>> /\ Len(messages) \in PromptsIn(messages)
    THEN SubSeq(messages, 1, Len(messages) - 1)
    ELSE messages

\* The iterations of the current turn whose model call has returned.
DoneIterations == 0..(Len(lResps) - 1)

\* The code blocks executed in iteration i, in the order of their execution.
ExecutedIn(i) == SelectSeq(lExec, LAMBDA e : e.iter = i)

\* C29: of every iteration whose model call returned, the k >= 1 code blocks
\* of the response ran one after another in their textual order, each on the
\* interpreter as the block before it left it, and the history holds exactly
\* k 'Code executed' messages for them, in that order; for k = 0 it holds
\* exactly one 'You responded with' message; and the answer of the turn was
\* looked up in the interpreter as the blocks of the same response left it.
C29_BlocksRunInOrder ==
    /\ lCalls # <<>> =>
           Tags(IterationHistory)
           = <<Tag(SystemMsg)>> \o ExpectedHistory(lTurn, lResps, Len(lResps))
    /\ \A i \in DoneIterations :
           LET ran == ExecutedIn(i)
               blocks == lResps[i + 1].blocks
           IN  /\ Len(ran) = Len(blocks)
               /\ \A b \in 1..Len(ran) : ran[b].block = b /\ ran[b].kind = blocks[b]
    /\ \A n \in 2..Len(lExec) : lExec[n].before = lExec[n - 1].result.locals
    /\ lExec # <<>> => lLocals = lExec[Len(lExec)].result.locals
    /\ lPc = "idle" /\ lResult.kind = "answer" /\ ~lResult.last =>
           lResult.value = check_for_final_answer(lResps[Len(lResps)].text, lLocals).value

\* An iteration ran two code blocks, the second of which binds a, and its
\* response ended with FINAL_VAR(a): the turn returned the value of a.
C29_Witness ==
    /\ lPc = "idle"
    /\ Len(lResps) = 2
    /\ lResps[1].blocks = <<>>
    /\ lResps[2].blocks = <<"prints", "binds_a">>
    /\ lResps[2].text = <<"FINAL_VAR(", "a", ")">>
    /\ Len(lExec) = 2
    /\ lExec[1].before = {}
    /\ lResult.value = ValueOf(<<"a">>)
    /\ Len(messages) = 4

\* The blocks in which the user's code raises: any exception, the
\* ImportError of the import allowlist, the PermissionError of the jail.
RaisingKinds == {"raises", "blocked_import", "outside_jail"}

\* What the worker answers to a Run with code in which ReplEnv::execute
\* returned this result: run_request over RlmRepl::execute_code.
WorkerRunOf(result) ==
    run_request([handle |-> TRUE, env |-> 1, bindings |-> {}, context |-> "empty"],
                [kind |-> "run", initialize |-> FALSE, code |-> TRUE, context |-> "absent",
                 fail |-> "none"],
                1, IF result.ok THEN "none" ELSE "execute")

\* The message the history holds for an executed block.
MessagesOf(e) ==
    {n \in 1..Len(IterationHistory) :
        /\ IterationHistory[n].kind = "code_executed"
        /\ IterationHistory[n].iter = e.iter
        /\ IterationHistory[n].block = e.block}

\* C25: when the user's code of an executed block raised, the execution
\* still returned a result, with the error text in its stderr; a worker
\* answers run_result with stdout and stderr to a Run of that code; and the
\* agent loop went on: the error text is in the REPL output shown to the
\* model, the later blocks of the response ran too, and the iteration came
\* to its end.
C25_UserErrorsAreCaptured ==
    \A n \in 1..Len(lExec) :
        LET e == lExec[n] IN
        e.kind \in RaisingKinds =>
            /\ e.result.ok
            /\ e.result.stderr \in {"Traceback", "ImportError", "PermissionError"}
            /\ WorkerRunOf(e.result).ok
            /\ WorkerRunOf(e.result).result = CodeResult
            /\ \E m \in MessagesOf(e) : IterationHistory[m].output = e.result.stderr
            /\ Len(ExecutedIn(e.iter)) = Len(lResps[e.iter + 1].blocks)
            /\ e.iter < Len(lResps)

\* A blocked import in the first block of the first response: the second
\* block ran after it and the loop is in its next model call.
C25_Witness ==
    /\ lPc = "call"
    /\ lIter = 1
    /\ Len(lExec) = 2
    /\ lExec[1].kind = "blocked_import"
    /\ lExec[2].kind = "binds_a"
    /\ messages[2].output = "ImportError"
    /\ lLocals = {<<"a">>}

(* The HTTP handler of POST /v1/chat/completions. *)

MaxMessages == 2

OPENAI_MAX_INPUT_STRING_BYTES == 10485760

\* u8::to_ascii_lowercase, on the letters of the boolean literals.
ToAsciiLowercase(c) ==
    CASE c = "T" -> "t" [] c = "R" -> "r" [] c = "U" -> "u" [] c = "E" -> "e"
      [] c = "F" -> "f" [] c = "A" -> "a" [] c = "L" -> "l" [] c = "S" -> "s"
      [] c = "O" -> "o" [] c = "N" -> "n" [] c = "Y" -> "y"
      [] OTHER -> c

\* str::eq_ignore_ascii_case
EqIgnoreAsciiCase(a, b) ==
    /\ Len(a) = Len(b)
    /\ \A i \in 1..Len(a) : ToAsciiLowercase(a[i]) = ToAsciiLowercase(b[i])

TrueLiterals == {<<"1">>, <<"t", "r", "u", "e">>, <<"y", "e", "s">>, <<"o", "n">>}

FalseLiterals == {<<"0">>, <<"f", "a", "l", "s", "e">>, <<"n", "o">>, <<"o", "f", "f">>}

\* Result<bool, (StatusCode, String)>
OkBool(b) == [ok |-> TRUE, value |-> b, status |-> 200]

ErrStatus(status) == [ok |-> FALSE, value |-> FALSE, status |-> status]

\* header_bool(headers, name), on the header of that name: absent, or
\* present with its text.  HeaderValue::to_str succeeds on visible ASCII
\* characters, space and tab only.
header_bool(header) ==
    IF ~header.present THEN OkBool(FALSE)
    ELSE IF \E i \in 1..Len(header.value) : header.value[i] = "e_acute" THEN ErrStatus(500)
    ELSE LET value == TrimMatches(header.value, {" "}) IN
         IF \E lit \in TrueLiterals : EqIgnoreAsciiCase(value, lit) THEN OkBool(TRUE)
         ELSE IF \E lit \in FalseLiterals : EqIgnoreAsciiCase(value, lit) THEN OkBool(FALSE)
         ELSE ErrStatus(400)

\* openai_message_text: a string as it is, null as the empty text, any
\* other JSON value as its serialisation.
openai_message_text(message) ==
    CASE message.content.kind = "string" -> message.content.text
      [] message.content.kind = "null" -> ""
      [] OTHER -> "json:" \o message.content.text

DEFAULT_QUERY == "Please read through the context"

\* The query as the content of the last message of non-empty content,
\* whatever its role, once no user message has any.
QueryFromLastNonEmpty(msgs) ==
    LET users == {i \in 1..Len(msgs) : msgs[i].role = "user" /\ openai_message_text(msgs[i]) # ""}
        any == {i \in 1..Len(msgs) : openai_message_text(msgs[i]) # ""}
        Last(S) == CHOOSE i \in S : \A j \in S : j <= i
    IN  IF users # {} THEN openai_message_text(msgs[Last(users)])
        ELSE IF any # {} THEN openai_message_text(msgs[Last(any)])
        ELSE DEFAULT_QUERY

\* The loop of openai_query_from_messages over messages.iter().rev(),
\* from message n down.
RECURSIVE LastUserText(_, _)
LastUserText(msgs, n) ==
    IF n = 0 THEN ""
    ELSE IF msgs[n].role = "user" /\ openai_message_text(msgs[n]) # ""
         THEN openai_message_text(msgs[n])
    ELSE LastUserText(msgs, n - 1)

openai_query_from_messages(msgs) ==
    IF LastUserText(msgs, Len(msgs)) # "" THEN LastUserText(msgs, Len(msgs))
    ELSE IF msgs # <<>> /\ openai_message_text(msgs[Len(msgs)]) # ""
         THEN openai_message_text(msgs[Len(msgs)])
    ELSE DEFAULT_QUERY

\* validate_openai_input: the error of the first message that has one.
RECURSIVE validate_openai_input(_, _)
validate_openai_input(msgs, idx) ==
    LET \* str::len of the texts of the model
        content_len(text) == CASE text = "" -> 0
                               [] text = "huge" -> OPENAI_MAX_INPUT_STRING_BYTES + 1
                               [] OTHER -> 4
    IN  IF idx > Len(msgs) THEN 200
        ELSE IF msgs[idx].role = "" THEN 400
        ELSE IF content_len(openai_message_text(msgs[idx])) > OPENAI_MAX_INPUT_STRING_BYTES THEN 413
        ELSE validate_openai_input(msgs, idx + 1)

\* session_id_from_transport: an X-RLM-Session-Id header that is no UUID
\* is an error; without the header the cookie or a fresh UUID is used.
session_id_from_transport(session) == IF session = "invalid" THEN ErrStatus(400) ELSE OkBool(TRUE)

Rejected(status) == [status |-> status, content |-> "none"]

\* openai_chat_completions_handler up to state.sender.send: [status, request],
\* status 200 standing for a request that is sent.  In
\* `reset.unwrap_or(false) || header_bool(&headers, "x-rlm-reset")?`
\* the `||` evaluates header_bool only when the body's reset is not true.
HandlerChecks(hs, body) ==
    LET reset == IF body.reset = "true" THEN OkBool(TRUE) ELSE header_bool(hs.reset) IN
    IF body.stream = "true" THEN [status |-> 400, request |-> <<>>]
    ELSE IF body.messages = <<>> THEN [status |-> 400, request |-> <<>>]
    ELSE IF validate_openai_input(body.messages, 1) # 200
         THEN [status |-> validate_openai_input(body.messages, 1), request |-> <<>>]
    ELSE IF body.model = "other" THEN [status |-> 400, request |-> <<>>]
    ELSE IF ~session_id_from_transport(hs.session).ok
         THEN [status |-> session_id_from_transport(hs.session).status, request |-> <<>>]
    ELSE IF ~reset.ok THEN [status |-> reset.status, request |-> <<>>]
    ELSE [status |-> 200,
          request |-> <<[reset |-> reset.value,
                        query |-> openai_query_from_messages(body.messages)]>>]

\* openai_chat_completions_handler from its entry to the send on the
\* manager's channel, which fails when the manager is gone.
HandleRequest(manager_up) ==
    /\ hPc = "request"
    /\ LET checked == HandlerChecks(headers, payload) IN
       IF checked.status # 200
       THEN /\ hResponse' = Rejected(checked.status)
            /\ hPc' = "done"
            /\ UNCHANGED hSent
       ELSE IF ~manager_up
       THEN /\ hResponse' = Rejected(500)
            /\ hPc' = "done"
            /\ UNCHANGED hSent
       ELSE /\ hSent' = hSent \o checked.request
            /\ hPc' = "await"
            /\ UNCHANGED hResponse
    /\ UNCHANGED <<headers, payload, finalVars, loopVars, replVars, sessionVars, poolVars, clientVars, workerVars>>

\* openai_chat_completions_handler from response.await on: a closed
\* channel, an error of the session and a result without a response are
\* internal errors.
AwaitResponse(reply) ==
    /\ hPc = "await"
    /\ hResponse' = IF reply = "content" THEN [status |-> 200, content |-> "assistant"]
                    ELSE Rejected(500)
    /\ hPc' = "done"
    /\ UNCHANGED <<headers, payload, hSent, finalVars, loopVars, replVars, sessionVars, poolVars, clientVars,
                   workerVars>>

\* The requests: an X-RLM-Reset header that is absent, a literal, or no
\* literal; messages whose content is a string, null or another value.
InitHttp ==
    /\ InitNoSystem
    /\ InitNoFinal
    /\ InitNoLoop
    /\ InitNoRepl
    /\ headers \in [reset : {[present |-> FALSE, value |-> <<>>]}
                            \cup {[present |-> TRUE, value |-> v] :
                                     v \in {<<"1">>, <<"T", "r", "u", "e">>, <<" ", "O", "n", " ">>,
                                            <<"0">>, <<"F", "A", "L", "S", "E">>, <<" ", "n", "o">>,
                                            <<>>, <<"m", "a", "y", "b", "e">>,
                                            <<"t", "r", "u", "e", "e_acute">>}},
                     session : {"absent", "valid", "invalid"}]
    /\ payload \in [messages :
                        UNION {[1..n -> [role : {"user", "assistant", ""},
                                         content : {[kind |-> "string", text |-> t] :
                                                        t \in {"", "one", "two", "huge"}}
                                                   \cup {[kind |-> "null", text |-> ""],
                                                         [kind |-> "other", text |-> "{}"]}]] :
                               n \in 0..MaxMessages},
                    model : {"absent", "other"},
                    stream : {"absent", "true"},
                    reset : {"absent", "false", "true"}]
    /\ hPc = "request"
    /\ hSent = <<>>
    /\ hResponse = Rejected(0)

NextHttp ==
    \/ \E manager_up \in BOOLEAN : HandleRequest(manager_up)
    \/ \E reply \in {"closed", "error", "no_content", "content"} : AwaitResponse(reply)

SpecHttp == InitHttp /\ [][NextHttp]_vars

\* The header's text is one of the boolean literals, surrounding spaces
\* and the case of its letters set aside.
IsBooleanLiteral(value) ==
    \E lit \in TrueLiterals \cup FalseLiterals : EqIgnoreAsciiCase(TrimMatches(value, {" "}), lit)

\* C26: a request whose X-RLM-Reset header is not a boolean literal is
\* rejected with a client error and is never sent to the session manager,
\* whatever the reset field of its body.
C26_InvalidResetHeaderRejected ==
    (headers.reset.present /\ ~IsBooleanLiteral(headers.reset.value) /\ hPc \in {"await", "done"})
        => /\ hSent = <<>>
           /\ hResponse.status \in {400, 413}

\* The query of the messages: the text of the last user message that has
\* one, else the text of the last message, else the default query.
ExpectedQuery(msgs) ==
    LET users == {i \in 1..Len(msgs) : msgs[i].role = "user" /\ openai_message_text(msgs[i]) # ""} IN
    IF users # {}
    THEN openai_message_text(msgs[CHOOSE i \in users : \A j \in users : j <= i])
    ELSE IF openai_message_text(msgs[Len(msgs)]) # "" THEN openai_message_text(msgs[Len(msgs)])
    ELSE DEFAULT_QUERY

\* C27 as stated: without a user message of non-empty content, the query
\* is the content of the last message of non-empty content.
C27_Original ==
    hSent # <<>> => hSent[1].query = QueryFromLastNonEmpty(payload.messages)

\* C27: the query sent to the session manager is the content of the last
\* user message of non-empty content; without one it is the content of
\* the last message of the array if that is non-empty, and the default
\* query otherwise, even when an earlier message has content.
C27_QueryFromMessages ==
    hSent # <<>> => hSent[1].query = ExpectedQuery(payload.messages)

\* A request is sent with the default query although its first message,
\* of another role than user, has content.
C27_Witness ==
    /\ hPc = "await"
    /\ Len(payload.messages) = 2
    /\ payload.messages[1].role = "assistant"
    /\ openai_message_text(payload.messages[1]) = "one"
    /\ openai_message_text(payload.messages[2]) = ""
    /\ hSent[1].query = DEFAULT_QUERY

(* A reset whose replacement cannot be acquired. *)

\* The results a caller reports as Internal: an error sent on respond_to,
\* and a respond_to dropped without an answer (response channel closed).
InternalResults == {"internal", "closed"}

\* The step in which acquire_handle fails in actor a for a reset request
\* that took a handle out of `session`.
ResetAcquireFails(a) ==
    /\ threads[a].pc = "acquire"
    /\ threads'[a].pc = "finish"
    /\ reqs[threads[a].cur].reset
    /\ threads[a].dropped # None

\* C30: when a reset turn cannot acquire a replacement worker, the old
\* handle has been retired and is not kept, the session holds no handle
\* and the request fails as Internal; a session without a handle asks the
\* pool for a fresh one on its next turn and runs it with initialize = true.
C30_FailedResetDropsSession ==
    [][\A a \in ReqIds :
          /\ ResetAcquireFails(a) =>
                /\ threads[a].dropped \in terminated
                /\ threads'[a].handle = None
                /\ ~threads'[a].initialized
                /\ \A b \in ReqIds : threads'[b].handle # threads[a].dropped
                /\ threads[a].dropped \notin Range(pool'.idle)
                /\ reqs'[threads[a].cur].result \in InternalResults
          /\ (threads[a].pc = "recv" /\ threads[a].handle = None /\ threads'[a].pc \notin {"recv", "exited"}) =>
                /\ threads'[a].pc = "acquire"
                /\ poolQueue' = Append(poolQueue, AcquireCmd(a))
          /\ (threads[a].pc = "acquire" /\ threads'[a].pc = "running") =>
                /\ threads'[a].run_init
                /\ threads'[a].handle \notin threads[a].owned \cup terminated]_vars

\* A session's first turn ran, its second turn, a reset, found no
\* replacement, and its third turn runs on a fresh handle with
\* initialize = true.
C30_Witness ==
    \E a \in ReqIds :
        /\ Len(reqs) = 3
        /\ \A r \in 1..3 : reqs[r].sid = threads[a].sid
        /\ reqs[1].result = "ok"
        /\ reqs[2].reset /\ reqs[2].result = "closed"
        /\ threads[a].cur = 3
        /\ threads[a].pc = "running"
        /\ threads[a].run_init
        /\ Cardinality(threads[a].owned) = 2

(* The state the manager records for a session. *)

\* The request actor a will run next: the oldest message of its channel.
NextToRun(a) == IF threads[a].mailbox = <<>> THEN None ELSE Head(threads[a].mailbox)

\* The request the manager hands to the actor of session s in this step.
DispatchedNow(s) ==
    {r \in ReqIds : /\ r <= Len(reqs)
                    /\ reqs[r].sid = s
                    /\ \E a \in ReqIds : /\ r \in Range(threads'[a].mailbox)
                                         /\ r \notin Range(threads[a].mailbox)}

\* C31 as stated: a session is Idle exactly when nothing is pending, Busy
\* or ResetPending otherwise, and ResetPending whenever the next request
\* its actor will run carries reset.
C31_Original ==
    \A s \in Live(M) :
        /\ actors[s].state = "Idle" <=> actors[s].pending = 0
        /\ (NextToRun(actors[s].aid) # None /\ reqs[NextToRun(actors[s].aid)].reset)
               => actors[s].state = "ResetPending"

\* C31: a session is Idle exactly when its pending count is 0; a dispatch
\* sets ResetPending when the dispatched request carries reset and Busy
\* when it does not, and a finished token that leaves requests pending
\* sets Busy, whatever the requests still queued carry.
C31_StateFollowsLastEvent ==
    /\ [](\A s \in Live(M) : actors[s].state = "Idle" <=> actors[s].pending = 0)
    /\ [][\A s \in Sessions :
             (actors'[s] # actors[s] /\ actors'[s].aid # None) =>
                 IF DispatchedNow(s) # {}
                 THEN \A r \in DispatchedNow(s) :
                          actors'[s].state = IF reqs[r].reset THEN "ResetPending" ELSE "Busy"
                 ELSE actors'[s].state = IF actors'[s].pending = 0 THEN "Idle" ELSE "Busy"]_vars

\* A finished token left a session Busy although the request its actor
\* runs next carries reset.
C31_Witness ==
    \E s \in Live(M) :
        /\ actors[s].state = "Busy"
        /\ actors[s].pending = 1
        /\ NextToRun(actors[s].aid) # None
        /\ reqs[NextToRun(actors[s].aid)].reset
        /\ \E r \in 1..Len(reqs) : reqs[r].sid = s /\ reqs[r].result = "ok"

(* The answer to a request that reached a session actor. *)

\* C35: when run_actor_request has returned and the actor is about to send
\* the request's ActorFinished token, a result, Ok or Err, has been sent on
\* the request's respond_to.
C35_ResultSentBeforeFinished ==
    \A a \in ReqIds :
        threads[a].pc = "finish" => reqs[threads[a].cur].result \in {"ok", "internal"}

(* Admission after every response has been received. *)

\* C36: when every other request has had its result sent to the client and
\* the manager takes a request for a session without an actor at the
\* session cap, it evicts an idle session and does not answer Overloaded.
C36_AdmittedOnceAllAnswered ==
    [][(/\ ManagerHandles
        /\ actors[reqs[Head(ingress)].sid].aid = None
        /\ Cardinality(Live(M)) >= Max(config.max_sessions, 1)
        /\ \A q \in 1..Len(reqs) :
               (q # Head(ingress) /\ reqs[q].accepted)
                   => reqs[q].result \in {"ok", "internal", "overloaded"})
          => reqs'[Head(ingress)].result # "overloaded"]_vars

(* The idle queue between two requests. *)

\* C37: while the manager waits for its next request, idle_index is the set
\* of the live sessions with pending == 0, holds live sessions only, and
\* each of its ids occurs in idle_lru.
C37_IdleIndexIsIdleSet ==
    (managerAlive /\ mgrPc = "recv") =>
        /\ idle_index = {s \in Live(M) : actors[s].pending = 0}
        /\ idle_index \subseteq Live(M)
        /\ idle_index \subseteq Range(idle_lru)

\* The manager waits with an idle session in idle_index, a busy session
\* outside it, and an entry in idle_lru that an earlier idle period left.
C37_Witness ==
    /\ managerAlive /\ mgrPc = "recv"
    /\ idle_index # {}
    /\ \E s \in Live(M) : actors[s].pending > 0 /\ s \in Range(idle_lru)
    /\ Len(idle_lru) > Cardinality(idle_index)

(* Runs that do not initialize. *)

\* C38: a Run with initialize = false is in flight only on a handle on
\* which a Run with initialize = true has returned Ok: the handle is live
\* and its worker's interpreter exists.
C38_PlainRunOnlyAfterInitialize ==
    \A a \in ReqIds :
        (threads[a].pc = "running" /\ ~threads[a].run_init) =>
            /\ threads[a].handle # None
            /\ threads[a].handle \notin terminated
            /\ threads[a].initialized
            /\ interp[threads[a].handle].has_env

\* A session runs its second turn on the handle its first turn initialized.
C38_Witness ==
    \E a \in ReqIds :
        /\ threads[a].pc = "running"
        /\ ~threads[a].run_init
        /\ interp[threads[a].handle].mem # {}

(* Every accepted request is answered. *)

\* C40: under fair scheduling of the manager, the session actors and the
\* pool broker, with every Run and every launch returning, each request
\* that try_dispatch accepted eventually has its response channel resolved,
\* by a result or by being closed: again and again every request accepted
\* so far is resolved.
C40_AcceptedEventuallyResolved ==
    []<>(\A r \in 1..Len(reqs) : reqs[r].accepted => reqs[r].result # "none")

\* Every request issued was accepted and is resolved: one by the result of
\* its turn, one by its channel being closed.
C40_Witness ==
    /\ Len(reqs) = MaxRequests
    /\ \A r \in 1..Len(reqs) : reqs[r].accepted /\ reqs[r].result # "none"
    /\ \E r \in 1..Len(reqs) : reqs[r].result = "ok"
    /\ \E r \in 1..Len(reqs) : reqs[r].result = "closed"

(* ----------------------- llm_query's size guard ------------------------ *)
(* __rlm_llm_query of repl.rs: the foreign function behind llm_query. A    *)
(* message is its content's length in bytes (String::len).                 *)

\* Messages in one call of llm_query.
MaxSubcallMessages == 3

MAX_SUBCALL_TOTAL_TOKENS_APPROX == 120000

MAX_SUBCALL_MESSAGE_TOKENS_APPROX == 105000

MAX_SUBCALL_TOTAL_CHARS == 480000

MAX_SUBCALL_MESSAGE_CHARS == 420000

\* Mutant of estimate_tokens: three characters to a token.
EstimateTokensByThree(char_count) == (char_count + 2) \div 3

\* estimate_tokens: usize::div_ceil(4), the quotient plus one when there is a
\* remainder.
estimate_tokens(char_count) ==
    (char_count \div 4) + (IF char_count % 4 > 0 THEN 1 ELSE 0)

\* Iterator::sum over the content lengths.
RECURSIVE TotalChars(_)
TotalChars(lens) == IF lens = <<>> THEN 0 ELSE Head(lens) + TotalChars(Tail(lens))

\* validate_subcall_messages: "Ok", or the check that returned Err. The two
\* maxima are None for an empty list, and filter keeps a maximum only when it
\* exceeds the limit.
validate_subcall_messages(lens) ==
    LET total_chars == TotalChars(lens)
        total_tokens_approx == estimate_tokens(total_chars)
        Largest(S) == CHOOSE m \in S : \A x \in S : x <= m
        oversized == IF lens = <<>> THEN None ELSE Largest(Range(lens))
        oversized_tokens ==
            IF lens = <<>> THEN None
            ELSE Largest({estimate_tokens(lens[i]) : i \in DOMAIN lens})
    IN  IF total_chars > MAX_SUBCALL_TOTAL_CHARS THEN "total_chars"
        ELSE IF total_tokens_approx > MAX_SUBCALL_TOTAL_TOKENS_APPROX THEN "total_tokens"
        ELSE IF lens # <<>> /\ oversized > MAX_SUBCALL_MESSAGE_CHARS THEN "message_chars"
        ELSE IF lens # <<>> /\ oversized_tokens > MAX_SUBCALL_MESSAGE_TOKENS_APPROX
             THEN "message_tokens"
        ELSE "Ok"

\* The closure registered as __rlm_llm_query: a failed validation returns
\* the string "Error making LLM query: ..." at once; otherwise the client's
\* completion is awaited, and its error becomes the same kind of string.
LlmQuery(reply) ==
    /\ subcall.outcome = "none"
    /\ LET v == validate_subcall_messages(subcall.messages)
       IN  subcall' =
               IF v # "Ok"
               THEN [subcall EXCEPT !.outcome = "error_string", !.rejected = v]
               ELSE [subcall EXCEPT !.outcome = reply, !.calls = @ + 1]
    /\ UNCHANGED <<pyGlobals, pyLocals, pySys, pyBound, lastExec, finalVars, loopVars, httpVars, sessionVars, poolVars, clientVars, workerVars>>

InitSubcall ==
    /\ InitNoSystem
    /\ InitNoFinal
    /\ InitNoLoop
    /\ InitNoHttp
    /\ pyGlobals = <<>>
    /\ pyLocals = <<>>
    /\ pySys = [stdout |-> "none", stderr |-> "none", trace |-> "none"]
    /\ pyBound = <<>>
    /\ lastExec = [n |-> 0]
    /\ subcall \in [messages : UNION {[1..n -> {0, 1, 60000, 240000, 240001, 419999,
                                                420000, 420001, 480001}] :
                                         n \in 0..MaxSubcallMessages},
                    outcome : {"none"}, rejected : {"no"}, calls : {0}]

NextSubcall == \E reply \in {"response", "error_string"} : LlmQuery(reply)

SpecSubcall == InitSubcall /\ [][NextSubcall]_vars

\* Whether a list of message lengths fails the two character limits.
OverCharLimits(lens) ==
    \/ TotalChars(lens) > 480000
    \/ \E i \in DOMAIN lens : lens[i] > 420000

\* C34: once llm_query has returned, the guard rejected the list exactly when
\* the sum of the message lengths exceeds 480000 or one message exceeds
\* 420000; neither approximate-token check is the one that rejected; and a
\* rejected call returned an error string without any call of the model.
C34_GuardRejectsExactlyOversized ==
    subcall.outcome # "none" =>
        /\ (subcall.rejected # "no") <=> OverCharLimits(subcall.messages)
        /\ subcall.rejected \notin {"total_tokens", "message_tokens"}
        /\ subcall.rejected # "no" => subcall.outcome = "error_string" /\ subcall.calls = 0

\* A call rejected for one message of more than 420000 characters although
\* the total is within 480000.
C34_Witness ==
    /\ subcall.rejected = "message_chars"
    /\ TotalChars(subcall.messages) <= 480000
    /\ subcall.outcome = "error_string"
    /\ subcall.calls = 0

(* ------------------------ the REPL interpreter ------------------------- *)
(* ReplEnv::execute and the function __rlm_exec of repl.rs. A code block   *)
(* is a sequence of lines, a namespace maps a name to a value or to        *)
(* "unbound". An exception raised by the trace function removes the trace  *)
(* function, as sys.settrace documents.                                    *)

\* Lines in one code block, and calls of execute on one ReplEnv.
MaxCodeLines == 2

MaxExecutions == 2

\* The names followed: a name of the user's, the global `context`, the key
\* the postamble writes into __rlm_locals, and the two globals in which the
\* preamble saves sys.stdout and sys.stderr.
PyNames == {"x", "context", "_stdout", "__rlm_old_stdout", "__rlm_old_stderr"}

\* The assignment statements of the model: the name and the value.
Assigns ==
    [l \in {"x = 1", "x = 2", "context = 1", "_stdout = 1"} |->
        CASE l = "x = 1" -> <<"x", "1">>
          [] l = "x = 2" -> <<"x", "2">>
          [] l = "context = 1" -> <<"context", "1">>
          [] l = "_stdout = 1" -> <<"_stdout", "1">>]

\* is_expression of __rlm_exec: the last line starts with no statement
\* keyword, has no '=' before a '#', does not end with ':' and does not start
\* with 'print('.
is_expression(last_line) ==
    /\ last_line \notin {"while True: pass", "import io as __rlm_old_stdout"}
    /\ last_line \notin DOMAIN Assigns
    /\ last_line # "print(1)"

\* The builtin exec reaching line i of the block in namespace st.ns: nothing
\* runs after an exception. The endless loop ends by the TimeoutError of
\* __rlm_trace once the deadline has passed, and never without the trace
\* function.
ExecStatement(st, code, i) ==
    LET l == code[i]
        ran == [st EXCEPT !.runs[i] = @ + 1]
    IN  IF st.raised # "none" \/ st.hung THEN st
        ELSE CASE l \in DOMAIN Assigns -> [ran EXCEPT !.ns[Assigns[l][1]] = Assigns[l][2]]
               [] l = "print(1)" -> ran
               [] l = "x" ->
                    IF st.ns["x"] = "unbound" THEN [ran EXCEPT !.raised = "NameError"] ELSE ran
               [] l = "del x" ->
                    IF st.ns["x"] = "unbound" THEN [ran EXCEPT !.raised = "NameError"]
                    ELSE [ran EXCEPT !.ns["x"] = "unbound"]
               [] l = "1/0" -> [ran EXCEPT !.raised = "ZeroDivisionError"]
               [] l = "while True: pass" ->
                    IF st.trace = "__rlm_trace"
                    THEN [ran EXCEPT !.raised = "TimeoutError", !.trace = "none"]
                    ELSE [ran EXCEPT !.hung = TRUE]
               [] l = "import io as __rlm_old_stdout" ->
                    [ran EXCEPT !.ns["__rlm_old_stdout"] = "io"]

\* The builtin exec on the lines with the indices idxs, joined.
RECURSIVE ExecLines(_, _, _)
ExecLines(st, code, idxs) ==
    IF idxs = <<>> THEN st
    ELSE ExecLines(ExecStatement(st, code, Head(idxs)), code, Tail(idxs))

\* Mutant of CopyBack: nothing is copied into __rlm_locals.
CopyBackNothing(ns, globals, locals) == locals

\* The loop that ends __rlm_exec: every key of combined_namespace that is
\* no key of the globals is stored in __rlm_locals.
CopyBack(ns, globals, locals) ==
    [n \in PyNames |->
        IF ns[n] # "unbound" /\ globals[n] = "unbound" THEN ns[n] ELSE locals[n]]

\* __rlm_exec(code) with the trace function installed: the import lines run
\* in the globals; the other lines run in {**globals, **__rlm_locals}, as one
\* block, or, when the last line looks like an expression, as the lines
\* before its first occurrence followed by its eval, and as one block again
\* when that raised an Exception. An exception leaving __rlm_exec skips the
\* copy into __rlm_locals.
rlm_exec(globals, locals, code) ==
    LET Idx(imports) ==
            LET F[i \in 0..Len(code)] ==
                    IF i = 0 THEN <<>>
                    ELSE IF (code[i] = "import io as __rlm_old_stdout") = imports
                         THEN Append(F[i - 1], i) ELSE F[i - 1]
            IN  F[Len(code)]
        other_lines == Idx(FALSE)
        imported == ExecLines([ns |-> globals, runs |-> [i \in DOMAIN code |-> 0],
                               raised |-> "none", trace |-> "__rlm_trace", hung |-> FALSE],
                              code, Idx(TRUE))
        g == imported.ns
        st0 == [imported EXCEPT
                   !.ns = [n \in PyNames |-> IF locals[n] # "unbound" THEN locals[n] ELSE g[n]]]
        last == other_lines[Len(other_lines)]
        last_line_start == CHOOSE k \in DOMAIN other_lines :
                               /\ code[other_lines[k]] = code[last]
                               /\ \A j \in 1..(k - 1) : code[other_lines[j]] # code[last]
        before == IF Len(other_lines) > 1 /\ last_line_start > 1
                  THEN ExecLines(st0, code, SubSeq(other_lines, 1, last_line_start - 1))
                  ELSE st0
        evaluated == IF before.raised # "none" \/ before.hung THEN before
                     ELSE IF code[last] = "del x" THEN [before EXCEPT !.raised = "SyntaxError"]
                     ELSE ExecStatement(before, code, last)
        final == IF other_lines = <<>> THEN st0
                 ELSE IF ~is_expression(code[last]) THEN ExecLines(st0, code, other_lines)
                 ELSE IF evaluated.raised = "none" THEN evaluated
                 ELSE ExecLines([evaluated EXCEPT !.raised = "none"], code, other_lines)
    IN  [globals |-> g,
         locals |-> IF other_lines = <<>> \/ final.raised # "none" THEN locals
                    ELSE CopyBack(final.ns, g, locals),
         start |-> st0.ns, ns |-> final.ns, runs |-> final.runs,
         raised |-> final.raised, hung |-> final.hung]

\* ReplEnv::execute: the preamble saves sys.stdout and sys.stderr in two
\* globals, redirects both and installs __rlm_trace; __rlm_exec runs, an
\* exception being printed; the postamble removes the trace function, sets
\* sys.stdout and sys.stderr from the two globals and stores the captured
\* output in __rlm_locals. A block that never ends never returns.
Execute(code) ==
    /\ pyGlobals # <<>>
    /\ lastExec.n < MaxExecutions
    /\ LET saved == [pyGlobals EXCEPT !["__rlm_old_stdout"] = pySys.stdout,
                                      !["__rlm_old_stderr"] = pySys.stderr]
           r == rlm_exec(saved, pyLocals, code)
           assigned == {Assigns[code[i]][1] :
                           i \in {j \in DOMAIN code : r.runs[j] > 0 /\ code[j] \in DOMAIN Assigns}}
       IN  /\ ~r.hung
           /\ pyGlobals' = r.globals
           /\ pyLocals' = [r.locals EXCEPT !["_stdout"] = "captured"]
           /\ pySys' = [stdout |-> r.globals["__rlm_old_stdout"],
                        stderr |-> r.globals["__rlm_old_stderr"], trace |-> "none"]
           /\ pyBound' = [n \in PyNames |->
                             IF n \notin assigned THEN pyBound[n]
                             ELSE IF r.raised = "none" THEN r.ns[n] ELSE "unbound"]
           /\ lastExec' = [n |-> lastExec.n + 1, returned |-> TRUE, code |-> code,
                           runs |-> r.runs, raised |-> r.raised, start |-> r.start,
                           before |-> pySys]
    /\ UNCHANGED <<subcall, finalVars, loopVars, httpVars, sessionVars, poolVars, clientVars,
                   workerVars>>

\* ReplCore::init: ReplEnv::new builds a new interpreter with `context` in
\* its globals and an empty __rlm_locals.
Reinitialize ==
    /\ lastExec.n > 0
    /\ lastExec.n < MaxExecutions
    /\ lastExec.returned
    /\ pyGlobals' = [n \in PyNames |-> IF n = "context" THEN "ctx" ELSE "unbound"]
    /\ pyLocals' = [n \in PyNames |-> "unbound"]
    /\ pySys' = [stdout |-> "stdout", stderr |-> "stderr", trace |-> "none"]
    /\ pyBound' = [n \in PyNames |-> "unbound"]
    /\ lastExec' = [n |-> lastExec.n, returned |-> FALSE, code |-> <<>>, runs |-> <<>>,
                    raised |-> "none", start |-> pyGlobals', before |-> pySys']
    /\ UNCHANGED <<subcall, finalVars, loopVars, httpVars, sessionVars, poolVars, clientVars,
                   workerVars>>

InitRepl ==
    /\ InitNoSystem
    /\ InitNoFinal
    /\ InitNoLoop
    /\ InitNoHttp
    /\ subcall = [messages |-> <<>>, outcome |-> "none", rejected |-> "no", calls |-> 0]
    /\ pyGlobals = [n \in PyNames |-> IF n = "context" THEN "ctx" ELSE "unbound"]
    /\ pyLocals = [n \in PyNames |-> "unbound"]
    /\ pySys = [stdout |-> "stdout", stderr |-> "stderr", trace |-> "none"]
    /\ pyBound = [n \in PyNames |-> "unbound"]
    /\ lastExec = [n |-> 0, returned |-> FALSE, code |-> <<>>, runs |-> <<>>,
                   raised |-> "none", start |-> pyGlobals, before |-> pySys]

NextRepl ==
    \/ \E code \in UNION {[1..n -> {"x = 1", "x = 2", "context = 1", "_stdout = 1", "print(1)",
                                    "x", "del x", "1/0", "while True: pass",
                                    "import io as __rlm_old_stdout"}] : n \in 1..MaxCodeLines} :
           Execute(code)
    \/ Reinitialize

SpecRepl == InitRepl /\ [][NextRepl]_vars

\* C32: after execute has returned, no trace function is installed and
\* sys.stdout and sys.stderr are the objects they were before the call.
C32_TraceAndStreamsRestored ==
    lastExec.returned =>
        /\ pySys.trace = "none"
        /\ pySys.stdout = lastExec.before.stdout
        /\ pySys.stderr = lastExec.before.stderr

\* C39: in the last execution no line of the block ran more than once.
C39_EachStatementAtMostOnce ==
    lastExec.returned => \A i \in DOMAIN lastExec.runs : lastExec.runs[i] <= 1

\* The namespace the next execution starts with: {**globals, **__rlm_locals}.
NextStart ==
    [n \in PyNames |-> IF pyLocals[n] # "unbound" THEN pyLocals[n] ELSE pyGlobals[n]]

\* The statement of C33 as it stands: every name keeps the value that the
\* last completed execution assigning it gave it.
C33_Original ==
    \A n \in PyNames : pyBound[n] # "unbound" => NextStart[n] = pyBound[n]

\* C33: a name that is no key of the interpreter's globals and is not
\* _stdout keeps, at the start of every later execution, the value that the
\* last completed execution assigning it gave it; an execution that raises
\* leaves every such name as it found it.
C33_NewNamesPersist ==
    /\ \A n \in PyNames \ {"_stdout"} :
           pyBound[n] # "unbound" /\ pyGlobals[n] = "unbound" => NextStart[n] = pyBound[n]
    /\ lastExec.returned /\ lastExec.raised # "none" =>
           \A n \in PyNames \ {"_stdout"} :
               pyGlobals[n] = "unbound" => NextStart[n] = lastExec.start[n]

\* The second execution started with x = 1, bound by the first, did not
\* assign x and left the binding in place.
C33_Witness ==
    /\ lastExec.n = 2
    /\ lastExec.returned
    /\ lastExec.start["x"] = "1"
    /\ \A i \in DOMAIN lastExec.code : lastExec.code[i] \notin {"x = 1", "x = 2"}
    /\ pyBound["x"] = "1"
    /\ NextStart["x"] = "1"

============================================================================
